---- MODULE Spec2Model ----
(***************************************************************************)
(* TaggableFS: the metadata store (tables tags and files), the blob store  *)
(* under the root directory, and the requests TFSManager::dispatch serves. *)
(*                                                                         *)
(* Strings are sequences of one-character strings ("/a" is <<"/", "a">>).  *)
(* A row id is an integer; the empty string that the code uses for "no     *)
(* such row" is NoID.  A serialized id list ("2;5;") is a sequence of      *)
(* tokens, each an id or the separator SEP.                                *)
(***************************************************************************)
EXTENDS Integers, Sequences, FiniteSets, TLC

VARIABLES tags, files, blobs, tagView, tempFileNumber, alive, reply, budget,
          frames, inbox, pc, message, disk, taken, handled, outbox, cli

vars == <<tags, files, blobs, tagView, tempFileNumber, alive, reply, budget,
          frames, inbox, pc, message, disk, taken, handled, outbox, cli>>

\* The dispatcher loop: the inbound queue, the place in run() and
\* startDaemon(), the message in hand, the database file, and the requests
\* taken and dispatched so far; the outbound queue of the operator's
\* commands, and the processes of those commands.
loop == <<inbox, pc, message, disk, taken, handled, outbox, cli>>

(***************************************************************************)
(* Bounds of the model.                                                    *)
(***************************************************************************)
MaxOps == 3
MaxFileOps == 6
MaxTagOps == 5
MaxSearchOps == 4
MaxNestOps == 5
MaxViewOps == 5
MaxReadOnlyOps == 6
MaxLoopOps == 3
MaxListed == 3
MaxTagRows == 5
MaxFileRows == 2
MaxLen == 2
MaxOperators == 2

(***************************************************************************)
(* Program constants.                                                      *)
(***************************************************************************)
NoID == -2
SEP == -1
Diverged == -3
ENOENT == 2
EEXIST == 17
ENOTEMPTY == 39

Min(S) == CHOOSE x \in S : \A y \in S : x <= y
Max(S) == CHOOSE x \in S : \A y \in S : x >= y

SeqToSet(s) == {s[i] : i \in 1..Len(s)}
Contains(s, x) == \E i \in 1..Len(s) : s[i] = x

\* std::find: the index of the first occurrence of x, 0 for end().
Find(s, x) == IF Contains(s, x) THEN Min({i \in 1..Len(s) : s[i] = x}) ELSE 0

\* std::vector::erase at index i (1 <= i <= Len(s)).
Erase(s, i) == SubSeq(s, 1, i - 1) \o SubSeq(s, i + 1, Len(s))

(***************************************************************************)
(* common.cpp                                                              *)
(***************************************************************************)
\* serializeStrings: every non-empty id followed by the separator.
RECURSIVE serializeStrings(_)
serializeStrings(ids) ==
    IF ids = <<>> THEN <<>>
    ELSE (IF Head(ids) # NoID THEN <<Head(ids), SEP>> ELSE <<>>)
         \o serializeStrings(Tail(ids))

\* The element cut out by substr(begin, end - begin): one id token.
IdOf(run) == IF Len(run) = 1 THEN run[1] ELSE NoID

\* deserializeStrings: the scan starts with begin = 0 and end = 1 (0-based),
\* so a separator in the first position is never seen.
RECURSIVE deserScan(_, _, _)
deserScan(text, begin, end) ==
    IF end >= Len(text) THEN <<>>
    ELSE IF text[end + 1] = SEP
         THEN <<IdOf(SubSeq(text, begin + 1, end))>> \o deserScan(text, end + 1, end + 1)
         ELSE deserScan(text, begin, end + 1)

deserializeStrings(text) == deserScan(text, 0, 1)

\* getFilename: what follows the last '/', the whole string when there is none.
RECURSIVE getFilename(_)
getFilename(path) ==
    IF path = <<>> THEN <<>>
    ELSE IF path[Len(path)] = "/" THEN <<>>
    ELSE getFilename(SubSeq(path, 1, Len(path) - 1)) \o <<path[Len(path)]>>

\* path.substr(0, path.find_last_of('/')); the whole string when there is no '/'.
RECURSIVE upToLastSlash(_)
upToLastSlash(path) ==
    IF ~Contains(path, "/") THEN path
    ELSE IF path[Len(path)] = "/" THEN SubSeq(path, 1, Len(path) - 1)
    ELSE upToLastSlash(SubSeq(path, 1, Len(path) - 1))

\* splitPathIntoParts: the non-empty components of a path that starts with
\* '/'; no parts at all for a string that does not.
RECURSIVE splitRemaining(_)
splitRemaining(remaining) ==
    IF remaining = <<>> THEN <<>>
    ELSE LET position == Find(remaining, "/")
             part == IF position = 0 THEN remaining
                     ELSE SubSeq(remaining, 1, position - 1)
             rest == IF position = 0 THEN <<>>
                     ELSE splitRemaining(SubSeq(remaining, position + 1, Len(remaining)))
         IN  (IF part # <<>> THEN <<part>> ELSE <<>>) \o rest

splitPathIntoParts(path) ==
    IF path # <<>> /\ path[1] = "/" THEN splitRemaining(Tail(path)) ELSE <<>>

\* popBackAndRemove: the last element ("" when empty) and the vector without it.
popBack(parts) == IF parts = <<>> THEN <<>> ELSE parts[Len(parts)]
popRest(parts) == IF parts = <<>> THEN <<>> ELSE SubSeq(parts, 1, Len(parts) - 1)

(***************************************************************************)
(* The metadata store.  A table is a function from the row ids in use to   *)
(* rows; a SELECT without ORDER BY scans it in rowid order, and an INSERT  *)
(* without an id takes the largest rowid in use plus one.                  *)
(***************************************************************************)
World(T, F, B) == [tags |-> T, files |-> F, blobs |-> B]

\* The outcome of a model operation: the tables and blobs it leaves, its
\* return value, and whether it ended in an uncaught exception or in
\* undefined behaviour that kills the daemon.
Ret(W, r) == [w |-> W, r |-> r, x |-> FALSE]
Crash(W) == [w |-> W, r |-> 0, x |-> TRUE]

RECURSIVE SortedIds(_)
SortedIds(S) == IF S = {} THEN <<>> ELSE <<Min(S)>> \o SortedIds(S \ {Min(S)})

NextRowID(Tbl) == IF DOMAIN Tbl = {} THEN 1 ELSE Max(DOMAIN Tbl) + 1

InsertRow(Tbl, id, row) == [i \in DOMAIN Tbl \cup {id} |-> IF i = id THEN row ELSE Tbl[i]]

DeleteRow(Tbl, id) == [i \in DOMAIN Tbl \ {id} |-> Tbl[i]]

\* initDB: the two reserved rows of a new database; no file rows.
InitTags ==
    (0 :> [tag_name |-> <<"_", "/", "/">>, parent_folder |-> -1, parent_tags |-> <<>>,
           child_tags |-> <<>>, files_ids |-> <<>>])
    @@ (1 :> [tag_name |-> <<"/">>, parent_folder |-> -1, parent_tags |-> <<>>,
              child_tags |-> <<>>, files_ids |-> <<>>])

InitFiles == [i \in {} |-> 0]

InitBlobs == [n \in {} |-> <<>>]

(***************************************************************************)
(* Tag methods (TFSManager.cpp)                                            *)
(***************************************************************************)
\* GET_TAG_ID: the first tag row (parent_folder = 0) with the name.
selectTagID(T, tag) ==
    LET S == {i \in DOMAIN T : T[i].tag_name = tag /\ T[i].parent_folder = 0}
    IN  IF S = {} THEN NoID ELSE Min(S)

getAllTagIDs(T) == SortedIds({i \in DOMAIN T : T[i].parent_folder = 0})

getParentTagIDs(T, tagID) ==
    IF tagID \in DOMAIN T THEN deserializeStrings(T[tagID].parent_tags) ELSE <<>>

getChildTagIDs(T, tagID) ==
    IF tagID \in DOMAIN T THEN deserializeStrings(T[tagID].child_tags) ELSE <<>>

getFileIDsUnderTagID(T, tagID) ==
    IF tagID = NoID THEN <<>>
    ELSE IF tagID \in DOMAIN T THEN deserializeStrings(T[tagID].files_ids) ELSE <<>>

getFilenameFromID(F, fileID) == IF fileID \in DOMAIN F THEN F[fileID].filename ELSE <<>>

getFilenamesUnderTagID(T, F, tagID) ==
    LET fileIDs == getFileIDsUnderTagID(T, tagID)
    IN  [i \in 1..Len(fileIDs) |-> getFilenameFromID(F, fileIDs[i])]

\* getAncestorTagIDs: the tag itself and everything reached through
\* parent_tags, the walk stopping at the root tag 0.  The code keeps no
\* visited set: a walk longer than the table has rows is in a cycle and never
\* returns, which the result reports as the element Diverged.
RECURSIVE ancestorsFrom(_, _, _)
ancestorsFrom(T, tagID, depth) ==
    IF tagID = NoID \/ tagID = 0 THEN {}
    ELSE IF depth > Cardinality(DOMAIN T) + 1 THEN {Diverged}
    ELSE {tagID} \cup UNION {ancestorsFrom(T, p, depth + 1) :
                               p \in SeqToSet(getParentTagIDs(T, tagID))}

getAncestorTagIDs(T, tagID) == ancestorsFrom(T, tagID, 1)

\* A value computed once and used under a name, as a local variable is.
With(value, Body(_)) == Body(value)

\* getTagID: "" for "", 0 for "/", the leaf's id for a path whose other
\* components all name ancestors of the leaf, a lookup by name otherwise.
getTagID(T, tagPath) ==
    IF tagPath = <<>> THEN NoID
    ELSE IF tagPath = <<"/">> THEN 0
    ELSE IF tagPath[1] = "/"
    THEN With(splitPathIntoParts(tagPath), LAMBDA parts :
         With(IF popBack(parts) = <<>> THEN NoID ELSE selectTagID(T, popBack(parts)),
              LAMBDA tagID :
         With(getAncestorTagIDs(T, tagID), LAMBDA ancestorIDs :
             IF Diverged \in ancestorIDs THEN Diverged
             ELSE IF \E i \in 1..(Len(parts) - 1) : selectTagID(T, parts[i]) \notin ancestorIDs
                  THEN NoID
                  ELSE tagID)))
    ELSE selectTagID(T, tagPath)

getParentTagIDFromPath(T, tagPath) ==
    With(upToLastSlash(tagPath), LAMBDA parentTag :
        IF parentTag = <<>> THEN 0 ELSE getTagID(T, parentTag))

\* getTaggedFileID: the first file id under the tag whose file has the name.
getTaggedFileID(T, F, parentTagID, filename) ==
    IF parentTagID = NoID THEN NoID
    ELSE With(getFileIDsUnderTagID(T, parentTagID), LAMBDA fileIDs :
         With({i \in 1..Len(fileIDs) : getFilenameFromID(F, fileIDs[i]) = filename},
              LAMBDA hit : IF hit = {} THEN NoID ELSE fileIDs[Min(hit)]))

\* The UPDATE statements change the row with the id, if there is one.
updateParentTagIDs(T, tagID, parentTagIDs) ==
    IF tagID \in DOMAIN T
    THEN [T EXCEPT ![tagID].parent_tags = serializeStrings(parentTagIDs)] ELSE T

updateChildTagIDs(T, tagID, childTagIDs) ==
    IF tagID \in DOMAIN T
    THEN [T EXCEPT ![tagID].child_tags = serializeStrings(childTagIDs)] ELSE T

updateTagFileIDs(T, tagID, fileIDs) ==
    IF tagID \in DOMAIN T
    THEN [T EXCEPT ![tagID].files_ids = serializeStrings(fileIDs)] ELSE T

\* CREATE_TAG
insertTag(T, tag, parentTags) ==
    InsertRow(T, NextRowID(T),
              [tag_name |-> tag, parent_folder |-> 0, parent_tags |-> parentTags,
               child_tags |-> <<>>, files_ids |-> <<>>])

\* createTag from the INSERT on: the row is added with the parent as its only
\* parent, and the id that getTagID(tag) then finds joins the parent's
\* children.
createTagUnder(W, tag, parentTagID) ==
    IF parentTagID = NoID THEN Ret(W, 1)
    ELSE With(insertTag(W.tags, tag, <<parentTagID, SEP>>), LAMBDA T1 :
         With(getTagID(T1, tag), LAMBDA tagID :
             IF tagID = NoID THEN Ret([W EXCEPT !.tags = T1], 1)
             ELSE Ret([W EXCEPT !.tags =
                          updateChildTagIDs(T1, parentTagID,
                                            Append(getChildTagIDs(T1, parentTagID), tagID))],
                      0)))

createTag(W, tagPath) ==
    With(getTagID(W.tags, tagPath), LAMBDA existing :
        IF existing = Diverged THEN Crash(W)
        ELSE IF existing # NoID THEN Ret(W, EEXIST)
        ELSE IF ~Contains(tagPath, "/") THEN createTagUnder(W, tagPath, 0)
        ELSE With(splitPathIntoParts(tagPath), LAMBDA parts :
                 createTagUnder(W, popBack(parts),
                                IF Len(parts) > 1
                                THEN getTagID(W.tags, parts[Len(parts) - 1]) ELSE 0)))

\* deleteTag.  erase(find(...)) on a parent that does not list the tag is
\* erase(end()): undefined behaviour, whose outcomes here are a crash or the
\* loss of the vector's last element (ub chooses).
RECURSIVE eraseFromParents(_, _, _, _)
eraseFromParents(T, tagID, parentTagIDs, ub) ==
    IF parentTagIDs = <<>> THEN [t |-> T, x |-> FALSE]
    ELSE With(getChildTagIDs(T, Head(parentTagIDs)), LAMBDA childTagIDs :
         With(Find(childTagIDs, tagID), LAMBDA at :
             IF at = 0 /\ (ub = "crash" \/ childTagIDs = <<>>) THEN [t |-> T, x |-> TRUE]
             ELSE eraseFromParents(
                      updateChildTagIDs(T, Head(parentTagIDs),
                                        IF at # 0 THEN Erase(childTagIDs, at)
                                        ELSE popRest(childTagIDs)),
                      tagID, Tail(parentTagIDs), ub)))

deleteTag(W, tagPath, ub) ==
    With(getTagID(W.tags, tagPath), LAMBDA tagID :
        IF tagID = Diverged THEN Crash(W)
        ELSE IF tagID = NoID THEN Ret(W, ENOENT)
        ELSE IF Len(getFileIDsUnderTagID(W.tags, tagID)) # 0
                \/ Len(getChildTagIDs(W.tags, tagID)) # 0
        THEN Ret(W, ENOTEMPTY)
        ELSE With(eraseFromParents(W.tags, tagID, getParentTagIDs(W.tags, tagID), ub),
                  LAMBDA erased :
                 IF erased.x THEN Crash(W)
                 ELSE Ret([W EXCEPT !.tags = DeleteRow(erased.t, tagID)], 0)))

\* A tagSingleFile that does not look at the names the tag already lists.
tagSingleFileUnchecked(W, fileID, tagID) ==
    IF tagID = NoID THEN Crash(W)
    ELSE Ret([W EXCEPT !.tags =
                 updateTagFileIDs(W.tags, tagID,
                                  Append(getFileIDsUnderTagID(W.tags, tagID), fileID))], 0)

\* tagSingleFile; updateTagFileIDs binds the tag id with std::stoi, which
\* throws on "".
tagSingleFile(W, fileID, tagID) ==
    IF Contains(getFilenamesUnderTagID(W.tags, W.files, tagID),
                getFilenameFromID(W.files, fileID))
    THEN Ret(W, EEXIST)
    ELSE IF tagID = NoID THEN Crash(W)
    ELSE Ret([W EXCEPT !.tags =
                 updateTagFileIDs(W.tags, tagID,
                                  Append(getFileIDsUnderTagID(W.tags, tagID), fileID))], 0)

untagSingleFile(W, fileID, tagID) ==
    With(getFileIDsUnderTagID(W.tags, tagID), LAMBDA fileIDs :
    With(Find(fileIDs, fileID), LAMBDA at :
        IF at = 0 THEN Ret(W, ENOENT)
        ELSE Ret([W EXCEPT !.tags = updateTagFileIDs(W.tags, tagID, Erase(fileIDs, at))], 0)))

\* A nestTag without the cyclic check.
nestTagUnchecked(W, tagID, parentTagID) ==
    IF tagID = NoID \/ parentTagID = NoID THEN Ret(W, ENOENT)
    ELSE With(getChildTagIDs(W.tags, parentTagID), LAMBDA childIDs :
         With(getParentTagIDs(W.tags, tagID), LAMBDA parentIDs :
             IF Contains(childIDs, tagID) THEN Ret(W, EEXIST)
             ELSE IF Contains(parentIDs, parentTagID) THEN Ret(W, EEXIST)
             ELSE Ret([W EXCEPT !.tags =
                          updateParentTagIDs(
                              updateChildTagIDs(W.tags, parentTagID, Append(childIDs, tagID)),
                              tagID, Append(parentIDs, parentTagID))], 0)))

nestTag(W, tagID, parentTagID) ==
    IF tagID = NoID \/ parentTagID = NoID THEN Ret(W, ENOENT)
    ELSE With(getChildTagIDs(W.tags, parentTagID), LAMBDA childIDs :
         With(getParentTagIDs(W.tags, tagID), LAMBDA parentIDs :
         With(getAncestorTagIDs(W.tags, parentTagID), LAMBDA ancestorIDs :
             IF Contains(childIDs, tagID) THEN Ret(W, EEXIST)
             ELSE IF Contains(parentIDs, parentTagID) THEN Ret(W, EEXIST)
             ELSE IF Diverged \in ancestorIDs THEN Crash(W)
             ELSE IF tagID \in ancestorIDs THEN Ret(W, 1)
             ELSE Ret([W EXCEPT !.tags =
                          updateParentTagIDs(
                              updateChildTagIDs(W.tags, parentTagID, Append(childIDs, tagID)),
                              tagID, Append(parentIDs, parentTagID))], 0))))

unnestTag(W, tagID, parentTagID) ==
    IF tagID = NoID \/ parentTagID = NoID THEN Ret(W, ENOENT)
    ELSE With(getChildTagIDs(W.tags, parentTagID), LAMBDA childIDs :
         With(getParentTagIDs(W.tags, tagID), LAMBDA parentIDs :
         With(Find(childIDs, tagID), LAMBDA atChild :
         With(Find(parentIDs, parentTagID), LAMBDA atParent :
             IF atChild = 0 THEN Ret(W, ENOENT)
             ELSE IF atParent = 0 THEN Ret(W, ENOENT)
             ELSE Ret([W EXCEPT !.tags =
                          updateParentTagIDs(
                              updateChildTagIDs(W.tags, parentTagID, Erase(childIDs, atChild)),
                              tagID, Erase(parentIDs, atParent))], 0)))))

(***************************************************************************)
(* Blobs.  A file of the root directory is named by a hash and an          *)
(* extension ("" for a blob, ".WRITE" and ".TRUNCATE" for the shadows); a  *)
(* hash is a placeholder token TEMPn (t = n) or the digest of a content    *)
(* (t = 0), the digest being one-to-one on contents.                       *)
(***************************************************************************)
Placeholder(n) == [t |-> n, d |-> <<>>]
Digest(content) == [t |-> 0, d |-> content]
NoHash == [t |-> NoID, d |-> <<>>]

\* "D41D8CD98F00B204E9800998ECF8427E", the digest of the empty input.
EmptyDigest == Digest(<<>>)

BlobName(hash) == [h |-> hash, ext |-> ""]
ShadowName(hash, ext) == [h |-> hash, ext |-> ext]

PutBlob(B, name, content) == [n \in DOMAIN B \cup {name} |-> IF n = name THEN content ELSE B[n]]

RemoveBlob(B, name) == [n \in DOMAIN B \ {name} |-> B[n]]

\* rename(2): the source replaces the destination; nothing when it is missing.
RenameBlob(B, from, to) ==
    IF from \notin DOMAIN B THEN B
    ELSE IF from = to THEN B
    ELSE PutBlob(RemoveBlob(B, from), to, B[from])

\* calculateHash: the digest of what read() returns, which is nothing when
\* the file cannot be opened.
calculateHash(B, name) == IF name \in DOMAIN B THEN Digest(B[name]) ELSE EmptyDigest

\* truncate(2): the content cut, or extended with zero bytes, to length.
Truncated(content, length) ==
    [i \in 1..length |-> IF i <= Len(content) THEN content[i] ELSE 0]

\* pwrite(2) at offset 0 over the present content.
Overwritten(content, data) ==
    [i \in 1..(IF Len(data) > Len(content) THEN Len(data) ELSE Len(content)) |->
        IF i <= Len(data) THEN data[i] ELSE content[i]]

(***************************************************************************)
(* Folder methods (TFSManager.cpp)                                         *)
(***************************************************************************)
\* GET_FILE_ID
getFileID(F, filename, parentFolderID) ==
    LET S == {i \in DOMAIN F : F[i].filename = filename /\ F[i].parent_folder = parentFolderID}
    IN  IF S = {} THEN NoID ELSE Min(S)

\* GET_HASH
getHash(F, filename, parentFolderID) ==
    LET fileID == getFileID(F, filename, parentFolderID)
    IN  IF fileID = NoID THEN NoHash ELSE F[fileID].hash

getFileIDsInFolder(F, parentFolderID) ==
    SortedIds({i \in DOMAIN F : F[i].parent_folder = parentFolderID})

\* GET_FOLDER_ID
selectFolderID(T, folderName, parentFolderID) ==
    LET S == {i \in DOMAIN T : T[i].tag_name = folderName
                                /\ T[i].parent_folder = parentFolderID}
    IN  IF S = {} THEN NoID ELSE Min(S)

\* getFolderID(parts): the walk from the root folder 1.
RECURSIVE walkFolders(_, _, _)
walkFolders(T, partsOfPath, folderID) ==
    IF partsOfPath = <<>> THEN folderID
    ELSE IF folderID = NoID THEN NoID
    ELSE walkFolders(T, Tail(partsOfPath), selectFolderID(T, Head(partsOfPath), folderID))

getFolderID(T, partsOfPath) == walkFolders(T, partsOfPath, 1)

isFolderEmpty(F, folderID) == {i \in DOMAIN F : F[i].parent_folder = folderID} = {}

\* COUNT_HASH_GT_0 and COUNT_HASH_GT_1
countHash(F, hash) == Cardinality({i \in DOMAIN F : F[i].hash = hash})

updateHash(F, fileID, newHash) ==
    IF fileID \in DOMAIN F THEN [F EXCEPT ![fileID].hash = newHash] ELSE F

\* A getFilePath that looks for the file row before it builds the path.
getFilePathOfFile(W, relativePath) ==
    With(splitPathIntoParts(relativePath), LAMBDA parts :
    With(getFolderID(W.tags, popRest(parts)), LAMBDA parentFolderID :
        IF parentFolderID # NoID /\ getFileID(W.files, popBack(parts), parentFolderID) # NoID
        THEN [found |-> TRUE, hash |-> getHash(W.files, popBack(parts), parentFolderID)]
        ELSE [found |-> FALSE, hash |-> NoHash]))

\* getFilePath: the root directory, "/" and the hash ("" when no such file);
\* "" when the parent folder does not resolve.  The result here is the hash,
\* NoID standing for the empty path.
getFilePath(W, relativePath) ==
    With(splitPathIntoParts(relativePath), LAMBDA parts :
    With(getFolderID(W.tags, popRest(parts)), LAMBDA parentFolderID :
        IF parentFolderID # NoID
        THEN [found |-> TRUE, hash |-> getHash(W.files, popBack(parts), parentFolderID)]
        ELSE [found |-> FALSE, hash |-> NoHash]))

\* CREATE_FOLDER names two columns; the list columns of a folder row are
\* never read.
insertFolder(T, newFolderName, parentFolderID) ==
    InsertRow(T, NextRowID(T),
              [tag_name |-> newFolderName, parent_folder |-> parentFolderID,
               parent_tags |-> <<>>, child_tags |-> <<>>, files_ids |-> <<>>])

createFolder(W, folderPath) ==
    With(splitPathIntoParts(folderPath), LAMBDA parts :
    With(getFolderID(W.tags, popRest(parts)), LAMBDA parentFolderID :
        IF parentFolderID = NoID THEN Ret(W, ENOENT)
        ELSE IF getFileID(W.files, popBack(parts), parentFolderID) = NoID
                /\ selectFolderID(W.tags, popBack(parts), parentFolderID) = NoID
        THEN Ret([W EXCEPT !.tags = insertFolder(W.tags, popBack(parts), parentFolderID)], 0)
        ELSE Ret(W, EEXIST)))

deleteFolder(W, folderPath) ==
    With(getFolderID(W.tags, splitPathIntoParts(folderPath)), LAMBDA folderID :
        IF folderID = NoID THEN Ret(W, ENOENT)
        ELSE IF isFolderEmpty(W.files, folderID)
        THEN Ret([W EXCEPT !.tags = DeleteRow(W.tags, folderID)], 0)
        ELSE Ret(W, ENOTEMPTY))

\* The loop of deleteFile over all tag ids: the file id is erased from every
\* tag that lists it, and those tags are saved.
RECURSIVE dropFromTags(_, _, _, _)
dropFromTags(T, tagIDs, fileID, saved) ==
    IF tagIDs = <<>> THEN [t |-> T, saved |-> saved]
    ELSE With(getFileIDsUnderTagID(T, Head(tagIDs)), LAMBDA fileIDs :
         With(Find(fileIDs, fileID), LAMBDA at :
             IF at # 0
             THEN dropFromTags(updateTagFileIDs(T, Head(tagIDs), Erase(fileIDs, at)),
                               Tail(tagIDs), fileID, Append(saved, Head(tagIDs)))
             ELSE dropFromTags(T, Tail(tagIDs), fileID, saved)))

\* deleteFile once the file is found: the blob is unlinked when no other row
\* has the hash, and on success the tags and the row go.
deleteFileRow(W, fileID, hash, isLastFileWithHash) ==
    IF isLastFileWithHash /\ BlobName(hash) \notin DOMAIN W.blobs
    THEN [o |-> Ret(W, ENOENT), saved |-> <<>>]
    ELSE With(dropFromTags(W.tags, getAllTagIDs(W.tags), fileID, <<>>), LAMBDA dropped :
             [o |-> Ret(World(dropped.t, DeleteRow(W.files, fileID),
                              IF isLastFileWithHash THEN RemoveBlob(W.blobs, BlobName(hash))
                              ELSE W.blobs), 0),
              saved |-> dropped.saved])

\* deleteFile: the outcome and the saved tag ids.
deleteFile(W, filePath) ==
    With(splitPathIntoParts(filePath), LAMBDA parts :
    With(getFolderID(W.tags, popRest(parts)), LAMBDA parentFolderID :
    With(getHash(W.files, popBack(parts), parentFolderID), LAMBDA hash :
        IF parentFolderID = NoID \/ hash = NoHash THEN [o |-> Ret(W, 1), saved |-> <<>>]
        ELSE deleteFileRow(W, getFileID(W.files, popBack(parts), parentFolderID), hash,
                           ~(countHash(W.files, hash) > 1)))))

\* getFileTags: the names of the tag rows (parent_folder = 0) that list the
\* file, once for every time they list it.
RECURSIVE countIn(_, _)
countIn(s, x) == IF s = <<>> THEN 0 ELSE (IF Head(s) = x THEN 1 ELSE 0) + countIn(Tail(s), x)

RECURSIVE tagNamesOf(_, _, _)
tagNamesOf(T, tagIDs, fileID) ==
    IF tagIDs = <<>> THEN <<>>
    ELSE [i \in 1..countIn(deserializeStrings(T[Head(tagIDs)].files_ids), fileID) |->
             T[Head(tagIDs)].tag_name]
         \o tagNamesOf(T, Tail(tagIDs), fileID)

getFileTags(W, fileID) ==
    IF getFilenameFromID(W.files, fileID) = <<>> THEN <<>>
    ELSE tagNamesOf(W.tags, getAllTagIDs(W.tags), fileID)

\* The loop of renamePath that gives the renamed file the saved tags.
RECURSIVE attachToTags(_, _, _)
attachToTags(T, tagIDs, fileID) ==
    IF tagIDs = <<>> THEN T
    ELSE attachToTags(
             updateTagFileIDs(T, Head(tagIDs),
                              Append(getFileIDsUnderTagID(T, Head(tagIDs)), fileID)),
             Tail(tagIDs), fileID)

\* RENAME_PATH_1
movedFile(F, fileID, newName, newParentFolderID) ==
    IF fileID \in DOMAIN F
    THEN [F EXCEPT ![fileID].filename = newName, ![fileID].parent_folder = newParentFolderID]
    ELSE F

\* RENAME_PATH_2
movedFolder(T, folderID, newName, newParentFolderID) ==
    IF folderID \in DOMAIN T
    THEN [T EXCEPT ![folderID].tag_name = newName, ![folderID].parent_folder = newParentFolderID]
    ELSE T

\* renamePath, the branch for a file: EEXIST when a tag of the file already
\* has a file of the new name; a file at the new path is deleted and its tags
\* go to the renamed file.  The UPDATE binds the new parent folder id with
\* std::stoi.
renameFile(W, newPath, newName, newParentFolderID, oldFileID, newFileID) ==
    With(getFileTags(W, oldFileID), LAMBDA fileTags :
        IF \E i \in 1..Len(fileTags) :
               Contains(getFilenamesUnderTagID(W.tags, W.files, getTagID(W.tags, fileTags[i])),
                        newName)
        THEN Ret(W, EEXIST)
        ELSE IF newParentFolderID = NoID THEN Crash(W)
        ELSE With(IF newFileID # NoID THEN deleteFile(W, newPath)
                  ELSE [o |-> Ret(W, 0), saved |-> <<>>], LAMBDA deleted :
                 Ret(World(attachToTags(deleted.o.w.tags, deleted.saved, oldFileID),
                           movedFile(deleted.o.w.files, oldFileID, newName, newParentFolderID),
                           deleted.o.w.blobs), 0)))

renameResolved(W, newPath, newName, newParentFolderID,
               oldFolderID, oldFileID, newFolderID, newFileID) ==
    IF oldFileID # NoID /\ newFolderID = NoID
    THEN renameFile(W, newPath, newName, newParentFolderID, oldFileID, newFileID)
    ELSE IF oldFolderID # NoID /\ newFolderID = NoID /\ newFileID = NoID
    THEN IF newParentFolderID = NoID THEN Crash(W)
         ELSE Ret([W EXCEPT !.tags = movedFolder(W.tags, oldFolderID, newName,
                                                 newParentFolderID)], 0)
    ELSE Ret(W, 1)

renamePath(W, oldPath, newPath) ==
    With(splitPathIntoParts(oldPath), LAMBDA oldParts :
    With(splitPathIntoParts(newPath), LAMBDA newParts :
    With(getFolderID(W.tags, popRest(oldParts)), LAMBDA oldParentFolderID :
    With(getFolderID(W.tags, popRest(newParts)), LAMBDA newParentFolderID :
        renameResolved(W, newPath, popBack(newParts), newParentFolderID,
            IF oldParentFolderID # NoID
            THEN selectFolderID(W.tags, popBack(oldParts), oldParentFolderID) ELSE NoID,
            IF oldParentFolderID # NoID
            THEN getFileID(W.files, popBack(oldParts), oldParentFolderID) ELSE NoID,
            IF newParentFolderID # NoID
            THEN selectFolderID(W.tags, popBack(newParts), newParentFolderID) ELSE NoID,
            IF newParentFolderID # NoID
            THEN getFileID(W.files, popBack(newParts), newParentFolderID) ELSE NoID)))))

\* truncateFile after truncate(2) succeeded on the target: the target takes
\* the name of its new digest and the row the new hash, unless the digest is
\* unchanged or that of the empty input.
rehashTruncated(W, B, fileID, hash, target, newHash) ==
    IF newHash # hash /\ newHash # EmptyDigest
    THEN World(W.tags, updateHash(W.files, fileID, newHash),
               RenameBlob(B, target, BlobName(newHash)))
    ELSE World(W.tags, W.files, B)

\* truncateFile once the file is found.  With other rows on the same hash,
\* cp makes the .TRUNCATE copy, which is the target and is removed at the end.
truncateBlob(W, length, fileID, hash, copyMade, target) ==
    With(IF copyMade /\ BlobName(hash) \in DOMAIN W.blobs
         THEN PutBlob(W.blobs, target, W.blobs[BlobName(hash)]) ELSE W.blobs, LAMBDA B1 :
        IF target \notin DOMAIN B1 THEN Ret([W EXCEPT !.blobs = B1], ENOENT)
        ELSE With(PutBlob(B1, target, Truncated(B1[target], length)), LAMBDA B2 :
             With(rehashTruncated(W, B2, fileID, hash, target, calculateHash(B2, target)),
                  LAMBDA W3 :
                 Ret(IF copyMade THEN [W3 EXCEPT !.blobs = RemoveBlob(W3.blobs, target)]
                     ELSE W3, 0))))

truncateFile(W, length, filePath) ==
    With(splitPathIntoParts(filePath), LAMBDA parts :
    With(getFolderID(W.tags, popRest(parts)), LAMBDA parentFolderID :
    With(getHash(W.files, popBack(parts), parentFolderID), LAMBDA hash :
        IF parentFolderID = NoID THEN Ret(W, 1)
        ELSE IF hash = NoHash THEN Ret(W, ENOENT)
        ELSE IF countHash(W.files, hash) > 1
        THEN truncateBlob(W, length, getFileID(W.files, popBack(parts), parentFolderID),
                          hash, TRUE, ShadowName(hash, ".TRUNCATE"))
        ELSE truncateBlob(W, length, getFileID(W.files, popBack(parts), parentFolderID),
                          hash, FALSE, BlobName(hash)))))

\* updateFile when the .WRITE shadow exists: the shadow takes the name of its
\* digest and the row the new hash, and the old blob goes when no row is left
\* on the old hash; the shadow is removed when the digest is unchanged or that
\* of the empty input.
rehashWritten(W, fileID, oldHash, temp, newHash) ==
    IF oldHash # newHash /\ newHash # EmptyDigest
    THEN With(updateHash(W.files, fileID, newHash), LAMBDA F1 :
         With(RenameBlob(W.blobs, temp, BlobName(newHash)), LAMBDA B1 :
             World(W.tags, F1,
                   IF countHash(F1, oldHash) = 0 THEN RemoveBlob(B1, BlobName(oldHash))
                   ELSE B1)))
    ELSE [W EXCEPT !.blobs = RemoveBlob(W.blobs, temp)]

\* updateFile; getHash binds the parent folder id with std::stoi, which
\* throws on "".
updateFile(W, filePath) ==
    With(splitPathIntoParts(filePath), LAMBDA parts :
    With(getFolderID(W.tags, popRest(parts)), LAMBDA parentFolderID :
    With(getHash(W.files, popBack(parts), parentFolderID), LAMBDA oldHash :
        IF parentFolderID = NoID THEN Crash(W)
        ELSE IF ShadowName(oldHash, ".WRITE") \notin DOMAIN W.blobs THEN Ret(W, 0)
        ELSE Ret(rehashWritten(W, getFileID(W.files, popBack(parts), parentFolderID),
                               oldHash, ShadowName(oldHash, ".WRITE"),
                               calculateHash(W.blobs, ShadowName(oldHash, ".WRITE"))), 0))))

\* ADD_TEMPORARY_FILE
insertFile(F, filename, tempFilename, parentFolderID) ==
    InsertRow(F, NextRowID(F),
              [filename |-> filename, hash |-> tempFilename, parent_folder |-> parentFolderID])

\* addTemporaryFile; the INSERT binds the parent folder id with std::stoi.
addTemporaryFile(W, tempFilename, path) ==
    With(splitPathIntoParts(path), LAMBDA parts :
    With(getFolderID(W.tags, popRest(parts)), LAMBDA parentFolderID :
        IF parentFolderID = NoID THEN Crash(W)
        ELSE Ret([W EXCEPT !.files =
                     insertFile(W.files, popBack(parts), tempFilename, parentFolderID)], 0)))

(***************************************************************************)
(* Tagging files and the tag-view rename (TFSManager.cpp)                  *)
(***************************************************************************)
\* The loops of tagFiles and untagFiles over the files of a folder.
RECURSIVE tagEach(_, _, _, _)
tagEach(W, fileIDs, tagID, returnValue) ==
    IF fileIDs = <<>> THEN Ret(W, returnValue)
    ELSE With(tagSingleFile(W, Head(fileIDs), tagID), LAMBDA o :
             IF o.x THEN o
             ELSE tagEach(o.w, Tail(fileIDs), tagID,
                          IF o.r = EEXIST THEN EEXIST ELSE returnValue))

RECURSIVE untagEach(_, _, _, _)
untagEach(W, fileIDs, tagID, returnValue) ==
    IF fileIDs = <<>> THEN Ret(W, returnValue)
    ELSE With(untagSingleFile(W, Head(fileIDs), tagID), LAMBDA o :
             untagEach(o.w, Tail(fileIDs), tagID,
                       IF o.r = ENOENT THEN ENOENT ELSE returnValue))

\* tagFiles once the tag id is known: the file, or every file of the folder.
tagResolved(W, name, parentFolderID, tagID) ==
    IF tagID = Diverged THEN Crash(W)
    ELSE IF parentFolderID = NoID THEN Ret(W, ENOENT)
    ELSE With(getFileID(W.files, name, parentFolderID), LAMBDA fileID :
         With(selectFolderID(W.tags, name, parentFolderID), LAMBDA folderID :
             IF fileID # NoID THEN tagSingleFile(W, fileID, tagID)
             ELSE IF folderID # NoID
             THEN tagEach(W, getFileIDsInFolder(W.files, folderID), tagID, 0)
             ELSE Ret(W, ENOENT)))

\* tagFiles when the tag does not resolve: it is created first.
tagCreated(created, name, parentFolderID, tag) ==
    IF created.x \/ created.r = 1 THEN created
    ELSE tagResolved(created.w, name, parentFolderID, getTagID(created.w.tags, tag))

tagFiles(W, filePath, tag) ==
    With(splitPathIntoParts(filePath), LAMBDA parts :
    With(getTagID(W.tags, tag), LAMBDA tagID :
        IF tagID = NoID
        THEN tagCreated(createTag(W, tag), popBack(parts),
                        getFolderID(W.tags, popRest(parts)), tag)
        ELSE tagResolved(W, popBack(parts), getFolderID(W.tags, popRest(parts)), tagID)))

untagFiles(W, filePath, tag) ==
    With(splitPathIntoParts(filePath), LAMBDA parts :
    With(getFolderID(W.tags, popRest(parts)), LAMBDA parentFolderID :
    With(getTagID(W.tags, tag), LAMBDA tagID :
        IF tagID = Diverged THEN Crash(W)
        ELSE IF tagID = NoID \/ parentFolderID = NoID THEN Ret(W, ENOENT)
        ELSE With(getFileID(W.files, popBack(parts), parentFolderID), LAMBDA fileID :
             With(selectFolderID(W.tags, popBack(parts), parentFolderID), LAMBDA folderID :
                 IF fileID # NoID THEN untagSingleFile(W, fileID, tagID)
                 ELSE IF folderID # NoID
                 THEN untagEach(W, getFileIDsInFolder(W.files, folderID), tagID, 0)
                 ELSE Ret(W, ENOENT))))))

\* renameTaggedPath, the branch for a tagged file: the file leaves the old
\* parent tag and joins the new one.
moveTaggedFile(W, fileID, oldParentTagID, newParentTagID) ==
    Ret(tagSingleFile(untagSingleFile(W, fileID, oldParentTagID).w, fileID, newParentTagID).w, 0)

\* RENAME_TAGGED_PATH
renamedTag(T, tagID, newName) ==
    IF tagID \in DOMAIN T THEN [T EXCEPT ![tagID].tag_name = newName] ELSE T

\* renameTaggedPath, the branch for a tag: moved to the new parent tag when
\* the parents differ, renamed when no tag has the new name.
moveTag(W, tagID, oldParentTagID, newParentTagID, newName, newTagID) ==
    With(IF newParentTagID # oldParentTagID
         THEN nestTag(unnestTag(W, tagID, oldParentTagID).w, tagID, newParentTagID)
         ELSE Ret(W, 0), LAMBDA nested :
        IF nested.x THEN Crash(W)
        ELSE IF newTagID = NoID
        THEN Ret([nested.w EXCEPT !.tags = renamedTag(nested.w.tags, tagID, newName)], 0)
        ELSE Ret(nested.w, 0))

renameTaggedResolved(W, oldParentTagID, newParentTagID, oldName, newName,
                     oldTagID, newTagID, oldFileID, newFileID) ==
    IF oldFileID # NoID /\ newTagID = NoID /\ newFileID = NoID
    THEN IF oldName # newName THEN Ret(W, 1)
         ELSE moveTaggedFile(W, oldFileID, oldParentTagID, newParentTagID)
    ELSE IF oldTagID # NoID /\ newFileID = NoID
    THEN IF oldTagID # newTagID /\ newTagID # NoID THEN Ret(W, 1)
         ELSE moveTag(W, oldTagID, oldParentTagID, newParentTagID, newName, newTagID)
    ELSE Ret(W, 1)

renameTaggedPath(W, oldPath, newPath) ==
    With(getParentTagIDFromPath(W.tags, oldPath), LAMBDA oldParentTagID :
    With(getParentTagIDFromPath(W.tags, newPath), LAMBDA newParentTagID :
        IF oldParentTagID = Diverged \/ newParentTagID = Diverged THEN Crash(W)
        ELSE IF oldParentTagID = NoID \/ newParentTagID = NoID THEN Ret(W, ENOENT)
        ELSE renameTaggedResolved(W, oldParentTagID, newParentTagID,
                 getFilename(oldPath), getFilename(newPath),
                 getTagID(W.tags, getFilename(oldPath)), getTagID(W.tags, getFilename(newPath)),
                 getTaggedFileID(W.tags, W.files, oldParentTagID, getFilename(oldPath)),
                 getTaggedFileID(W.tags, W.files, newParentTagID, getFilename(newPath)))))

(***************************************************************************)
(* The requests.  The names, paths, tag arguments, written data and        *)
(* lengths a request is drawn from.                                        *)
(***************************************************************************)
Names == {<<"a">>, <<"b">>}

Slash(name) == <<"/">> \o name

\* Default-mode paths: /a, /b, /a/a, /a/b.
DefaultPaths == {Slash(n) : n \in Names} \cup {Slash(<<"a">>) \o Slash(n) : n \in Names}

\* Tag-view paths: /a, /b and /m/n for all names m, n.
TagViewPaths == {Slash(n) : n \in Names} \cup {Slash(m) \o Slash(n) : m \in Names, n \in Names}

\* Tag arguments of the operator commands: a bare name, "/", or a tag-view path.
TagArgs == Names \cup {<<"/">>} \cup (TagViewPaths \ ({Slash(n) : n \in Names} \cup {Slash(n) \o Slash(n) : n \in Names}))

Data == {<<1>>, <<2>>}

Lengths == 0..MaxLen

Paths == IF tagView THEN TagViewPaths ELSE DefaultPaths

Here == World(tags, files, blobs)

\* A run serves the requests of its budget, and none once the daemon is dead.
Running == alive /\ budget > 0

\* What a handler leaves behind: the tables and blobs of its outcome and the
\* reply frame, whose text follows from the return value; a daemon killed by
\* the request replies nothing.
Done(o, Text(_)) ==
    /\ budget' = budget - 1
    /\ alive' = ~o.x
    /\ IF o.x
       THEN UNCHANGED <<tags, files, blobs, reply>>
       ELSE /\ tags' = o.w.tags
            /\ files' = o.w.files
            /\ blobs' = o.w.blobs
            /\ reply' = Text(o.r)
    /\ UNCHANGED <<tagView, tempFileNumber>>

Ack(returnValue) == "TM_ACK"

\* A reply that tells every failure as -1.
AckOrMinusOne(returnValue) == IF returnValue = 0 THEN "TM_ACK" ELSE "-1"

AckOrErrno(returnValue) == IF returnValue = 0 THEN "TM_ACK" ELSE ToString(returnValue)

AckOrFail(returnValue) == IF returnValue = 0 THEN "TM_ACK" ELSE "TM_FAIL"

\* checkIfDirectory (FD_IF_DIR) in default mode.
checkIfDirectory(W, path) == getFolderID(W.tags, splitPathIntoParts(path)) # NoID

\* open(2) with O_CREAT | O_EXCL: an empty file unless the name is taken.
CreateBlob(B, name) == IF name \in DOMAIN B THEN B ELSE PutBlob(B, name, <<>>)

\* mknod(2) modes: a regular file, or any other kind of node.
Modes == {"S_IFREG", "S_IFIFO"}

\* TFSmknod, called once TFSgetattr has answered ENOENT for the path: it
\* names no folder, and no file whose blob lstat(2) finds.  FD_GET_PATH_WRITE
\* must find the parent folder.  When it finds no file the row is added
\* under the next placeholder name (FD_ADD_TEMP).  Then, for a regular file
\* only, the empty blob is created with O_CREAT | O_EXCL.
TFSmknod(file, mode) ==
    /\ Running
    /\ ~tagView
    /\ ~checkIfDirectory(Here, file)
    /\ getFilePath(Here, file).found
    /\ With(getFilePath(Here, file).hash, LAMBDA hash :
           /\ BlobName(hash) \notin DOMAIN blobs
           /\ IF hash = NoHash
              THEN /\ files' = addTemporaryFile(Here, Placeholder(tempFileNumber), file).w.files
                   /\ tempFileNumber' = tempFileNumber + 1
                   /\ blobs' = IF mode = "S_IFREG"
                               THEN CreateBlob(blobs, BlobName(Placeholder(tempFileNumber)))
                               ELSE blobs
                   /\ reply' = "TM_ACK"
              ELSE /\ blobs' = IF mode = "S_IFREG" THEN CreateBlob(blobs, BlobName(hash))
                               ELSE blobs
                   /\ reply' = "PATH"
                   /\ UNCHANGED <<files, tempFileNumber>>)
    /\ Cardinality(DOMAIN files') <= MaxFileRows
    /\ budget' = budget - 1
    /\ UNCHANGED <<tags, tagView, alive>>

\* open(2) with O_CREAT of the .WRITE shadow of a hash, and pwrite(2) of the
\* data into it.
pwriteShadow(B, hash, data) ==
    PutBlob(B, ShadowName(hash, ".WRITE"),
            Overwritten(IF ShadowName(hash, ".WRITE") \in DOMAIN B
                        THEN B[ShadowName(hash, ".WRITE")] ELSE <<>>,
                        data))

\* TFSwrite on an open file: FD_GET_PATH_WRITE names the blob, and the data
\* goes into its .WRITE shadow, created if missing.
TFSwrite(file, data) ==
    /\ Running
    /\ ~tagView
    /\ With(getFilePath(Here, file).hash, LAMBDA hash :
           /\ hash # NoHash
           /\ BlobName(hash) \in DOMAIN blobs
           /\ blobs' = pwriteShadow(blobs, hash, data))
    /\ reply' = "PATH"
    /\ budget' = budget - 1
    /\ UNCHANGED <<tags, files, tagView, tempFileNumber, alive>>

\* FD_GET_PATH_WRITE in tag view, as getRealPath(file, true) of TFSmknod,
\* TFSwrite and TFSutime sends it: the daemon looks nothing up and answers
\* the empty path, on which TFSmknod returns -1 before FD_ADD_TEMP and
\* before open(2), TFSwrite returns -1 before it opens the .WRITE shadow,
\* and TFSutime returns -1 before utime(2).
FD_GET_PATH_WRITE(file) ==
    /\ Running
    /\ tagView
    /\ reply' = ""
    /\ budget' = budget - 1
    /\ UNCHANGED <<tags, files, blobs, tagView, tempFileNumber, alive>>

\* TFSrelease of an open file: FD_UPDATE.
FD_UPDATE(file) ==
    /\ Running
    /\ ~tagView => getFilePath(Here, file).hash # NoHash
    /\ Done(IF tagView THEN Ret(Here, 0) ELSE updateFile(Here, file), Ack)

\* An FD_TRUNCATE that does not look at the mode.
truncateAnyMode(length, file) ==
    /\ Running
    /\ Done(truncateFile(Here, length, file), AckOrErrno)

FD_TRUNCATE(length, file) ==
    /\ Running
    /\ Done(IF tagView THEN Ret(Here, 1) ELSE truncateFile(Here, length, file), AckOrErrno)

\* FD_UNLINK in tag view.
untagPath(W, file) ==
    With(getParentTagIDFromPath(W.tags, file), LAMBDA tagID :
        IF tagID = Diverged THEN Crash(W)
        ELSE untagSingleFile(W, getTaggedFileID(W.tags, W.files, tagID, getFilename(file)),
                             tagID))

FD_UNLINK(file) ==
    /\ Running
    /\ Done(IF tagView THEN untagPath(Here, file) ELSE deleteFile(Here, file).o, AckOrErrno)

\* s starts with p.
StartsWith(s, p) == Len(p) <= Len(s) /\ SubSeq(s, 1, Len(p)) = p

\* The kernel answers a rename of a path to itself, or of a path to a path
\* under it or above it, without a request.
FD_RENAME(oldPath, newPath) ==
    /\ Running
    /\ oldPath # newPath
    /\ ~StartsWith(newPath, oldPath \o <<"/">>)
    /\ ~StartsWith(oldPath, newPath \o <<"/">>)
    /\ Done(IF tagView THEN renameTaggedPath(Here, oldPath, newPath)
            ELSE renamePath(Here, oldPath, newPath), AckOrFail)

FD_MKDIR(path) ==
    /\ Running
    /\ Done(IF tagView THEN createTag(Here, path) ELSE createFolder(Here, path), AckOrErrno)
    /\ Cardinality(DOMAIN tags') <= MaxTagRows

FD_RMDIR(path, ub) ==
    /\ Running
    /\ Done(IF tagView THEN deleteTag(Here, path, ub) ELSE deleteFolder(Here, path),
            AckOrErrno)

TagReply(returnValue) ==
    IF returnValue = 0 THEN "File(s) successfully tagged."
    ELSE IF returnValue = EEXIST THEN "Failed. Filename conflict with files already tagged with the same tag."
    ELSE "Failed. Either file(s) path or tag is invalid."

QH_TAG(path, tag) ==
    /\ Running
    /\ Done(tagFiles(Here, path, tag), TagReply)
    /\ Cardinality(DOMAIN tags') <= MaxTagRows

UntagReply(returnValue) ==
    IF returnValue = 0 THEN "File(s) successfully untagged."
    ELSE "Failed. Either file(s) path or tag is invalid."

QH_UNTAG(path, tag) ==
    /\ Running
    /\ Done(untagFiles(Here, path, tag), UntagReply)

NestReply(returnValue) ==
    IF returnValue = 0 THEN "Tag successfully nested."
    ELSE IF returnValue = 1 THEN "Cyclic check error."
    ELSE "Failed. Either tag is invalid."

\* The arguments of nestTag and unnestTag are resolved by the dispatcher.
nestResolved(W, tagID, parentTagID) ==
    IF tagID = Diverged \/ parentTagID = Diverged THEN Crash(W)
    ELSE nestTag(W, tagID, parentTagID)

QH_NEST(tag, parentTag) ==
    /\ Running
    /\ Done(nestResolved(Here, getTagID(tags, tag), getTagID(tags, parentTag)), NestReply)

UnnestReply(returnValue) ==
    IF returnValue = 0 THEN "Tag successfully unnested."
    ELSE "Failed. Either tag is invalid."

unnestResolved(W, tagID, parentTagID) ==
    IF tagID = Diverged \/ parentTagID = Diverged THEN Crash(W)
    ELSE unnestTag(W, tagID, parentTagID)

QH_UNNEST(tag, parentTag) ==
    /\ Running
    /\ Done(unnestResolved(Here, getTagID(tags, tag), getTagID(tags, parentTag)), UnnestReply)

CreateTagReply(returnValue) ==
    IF returnValue = 0 THEN "Tag successfully created."
    ELSE IF returnValue = EEXIST THEN "Failed. Tag already exists."
    ELSE "Failed. Given tag is invalid."

QH_CREATE_TAG(tag) ==
    /\ Running
    /\ Done(createTag(Here, tag), CreateTagReply)
    /\ Cardinality(DOMAIN tags') <= MaxTagRows

DeleteTagReply(returnValue) ==
    IF returnValue = 0 THEN "Tag successfully deleted."
    ELSE IF returnValue = ENOTEMPTY THEN "Failed. Tag is not empty and has tags and/or files nested under it."
    ELSE "Failed. Given tag is invalid."

QH_DELETE_TAG(tag, ub) ==
    /\ Running
    /\ Done(deleteTag(Here, tag, ub), DeleteTagReply)

\* QH_EXIT and a later --init on the same root directory, in either mode: the
\* tables are saved and loaded again, the blobs stay, and the new bridge
\* process counts its placeholder names from 1.
Remount(mode) ==
    /\ Running
    /\ tagView' = mode
    /\ tempFileNumber' = 1
    /\ reply' = "TM_ACK"
    /\ budget' = budget - 1
    /\ UNCHANGED <<tags, files, blobs, alive>>

UB == {"crash", "droplast"}

\* serializeMessage: a frame of a reply, its content and its complete flag.
\* The content is a text; a token of the protocol ("TM_ACK", an errno, a
\* sentence for the operator) is a text of one symbol.
Frame(content, complete) == [content |-> content, complete |-> complete]

\* The reply of a handler that calls messageFUSEFileSystem or
\* messageQueryHandler once, with the default complete = true; no frame
\* when the daemon died in the handler.  reply is the token of such a
\* reply, and frames the frames of the last reply of any kind.
OneReply == frames' = IF alive' THEN <<Frame(<<reply'>>, TRUE)>> ELSE <<>>

\* A request on the inbound queue: the verb, and the payload as dispatch
\* splits it, a path or text, a second path, and a length.
Request(verb, path, other, length) ==
    [verb |-> verb, path |-> path, other |-> other, length |-> length]

NoRequest == Request("", <<>>, <<>>, 0)

\* The processes of the operator's commands, and the state of one: its place
\* in main(), the number of its request among the requests sent to the
\* daemon, and the frames it has read.
Operators == 1..MaxOperators

Command(at, ticket, read) == [at |-> at, ticket |-> ticket, read |-> read]

\* The database file: absent until the first save.
Database(written, T, F) == [written |-> written, tags |-> T, files |-> F]

\* initMQ and initDB of a new root directory: empty queues, no database
\* file, and run() about to receive.
AtStart ==
    /\ inbox = <<>>
    /\ pc = "receive"
    /\ message = NoRequest
    /\ disk = Database(FALSE, InitTags, InitFiles)
    /\ taken = <<>>
    /\ handled = <<>>
    /\ outbox = <<>>
    /\ cli = [p \in Operators |-> Command("initMQ", 0, <<>>)]

\* A request served and answered with the loop left out of the picture.
Direct == OneReply /\ UNCHANGED loop

(***************************************************************************)
(* Search (QH_SEARCH).  The operator command joins the tag names with ';'  *)
(* (serializeStrings) and the dispatcher splits them (deserializeStrings). *)
(***************************************************************************)
RECURSIVE serializeNames(_)
serializeNames(names) ==
    IF names = <<>> THEN <<>>
    ELSE (IF Head(names) # <<>> THEN Head(names) \o <<";">> ELSE <<>>)
         \o serializeNames(Tail(names))

RECURSIVE deserNames(_, _, _)
deserNames(text, begin, end) ==
    IF end >= Len(text) THEN <<>>
    ELSE IF text[end + 1] = ";"
         THEN <<SubSeq(text, begin + 1, end)>> \o deserNames(text, end + 1, end + 1)
         ELSE deserNames(text, begin, end + 1)

deserializeNames(text) == deserNames(text, 0, 1)

\* std::sort of a list of ids.  The ids are decimal strings and the order is
\* that of strings, which is the order of the numbers while ids have one digit.
RECURSIVE sortIDs(_)
sortIDs(ids) ==
    IF ids = <<>> THEN <<>>
    ELSE LET least == Min(SeqToSet(ids))
         IN  <<least>> \o sortIDs(Erase(ids, Find(ids, least)))

\* std::set_intersection of two sorted lists: an id that is m times in one
\* and n times in the other is min(m, n) times in the output.
RECURSIVE setIntersection(_, _)
setIntersection(first, second) ==
    IF first = <<>> \/ second = <<>> THEN <<>>
    ELSE IF Head(first) < Head(second) THEN setIntersection(Tail(first), second)
    ELSE IF Head(second) < Head(first) THEN setIntersection(first, Tail(second))
    ELSE <<Head(first)>> \o setIntersection(Tail(first), Tail(second))

\* The loop of findFileIDsWithTags from tags[i] on.  result.empty() only
\* asks whether result is empty, so result keeps what the earlier rounds put
\* into it and the back_inserter appends to that.
RECURSIVE intersectFrom(_, _, _, _, _)
intersectFrom(T, names, i, matches, result) ==
    IF i > Len(names) THEN matches
    ELSE IF getTagID(T, names[i]) = NoID THEN <<>>
    ELSE With(result \o setIntersection(sortIDs(matches),
                  sortIDs(getFileIDsUnderTagID(T, getTagID(T, names[i])))),
              LAMBDA appended : intersectFrom(T, names, i + 1, appended, appended))

findFileIDsWithTags(T, names) ==
    IF getTagID(T, names[1]) = NoID THEN <<>>
    ELSE intersectFrom(T, names, 2, getFileIDsUnderTagID(T, getTagID(T, names[1])), <<>>)

\* findFileIDsWithAnyOfTags: a std::set collects the ids.
findFileIDsWithAnyOfTags(T, names) ==
    IF \E i \in 1..Len(names) : getTagID(T, names[i]) = NoID THEN <<>>
    ELSE SortedIds(UNION {SeqToSet(getFileIDsUnderTagID(T, getTagID(T, names[i]))) :
                            i \in 1..Len(names)})

\* A listing without the frame for an empty result.
ListFramesOfEntries(contents) ==
    [i \in 1..Len(contents) |-> Frame(contents[i], i = Len(contents))]

\* The frames of a listing: one frame with an empty content when there is
\* nothing to list, else a frame per entry, the last one complete.
ListFrames(contents) ==
    IF contents = <<>> THEN <<Frame(<<>>, TRUE)>>
    ELSE [i \in 1..Len(contents) |-> Frame(contents[i], i = Len(contents))]

searchNames(F, ids) == [i \in 1..Len(ids) |-> getFilenameFromID(F, ids[i])]

\* getTagID does not return for the first name of the list that it is asked
\* about and whose ancestor walk is in a cycle.
searchDiverges(T, names) ==
    \E i \in 1..Len(names) :
        /\ getTagID(T, names[i]) = Diverged
        /\ \A j \in 1..(i - 1) : getTagID(T, names[j]) # NoID

QH_SEARCH(strict, text) ==
    /\ Running
    /\ deserializeNames(text) # <<>>
    /\ budget' = budget - 1
    /\ alive' = ~searchDiverges(tags, deserializeNames(text))
    /\ IF alive'
       THEN /\ frames' = ListFrames(searchNames(files,
                             IF strict = "1"
                             THEN findFileIDsWithTags(tags, deserializeNames(text))
                             ELSE findFileIDsWithAnyOfTags(tags, deserializeNames(text))))
            /\ reply' = ""
       ELSE /\ frames' = <<>>
            /\ reply' = reply
    /\ UNCHANGED <<tags, files, blobs, tagView, tempFileNumber>>

Init ==
    /\ tags = InitTags
    /\ files = InitFiles
    /\ blobs = InitBlobs
    /\ tagView \in BOOLEAN
    /\ tempFileNumber = 1
    /\ alive = TRUE
    /\ reply = ""
    /\ budget = MaxOps
    /\ frames = <<>>
    /\ AtStart

Next ==
    \/ \E file \in DefaultPaths, mode \in Modes : TFSmknod(file, mode) /\ Direct
    \/ \E file \in DefaultPaths, data \in Data : TFSwrite(file, data) /\ Direct
    \/ \E file \in Paths : FD_UPDATE(file) /\ Direct
    \/ \E length \in Lengths, file \in Paths : FD_TRUNCATE(length, file) /\ Direct
    \/ \E file \in Paths : FD_UNLINK(file) /\ Direct
    \/ \E oldPath \in Paths, newPath \in Paths : FD_RENAME(oldPath, newPath) /\ Direct
    \/ \E path \in Paths : FD_MKDIR(path) /\ Direct
    \/ \E path \in Paths, ub \in UB : FD_RMDIR(path, ub) /\ Direct
    \/ \E path \in DefaultPaths, tag \in TagArgs : QH_TAG(path, tag) /\ Direct
    \/ \E path \in DefaultPaths, tag \in TagArgs : QH_UNTAG(path, tag) /\ Direct
    \/ \E tag \in TagArgs, parentTag \in TagArgs : QH_NEST(tag, parentTag) /\ Direct
    \/ \E tag \in TagArgs, parentTag \in TagArgs : QH_UNNEST(tag, parentTag) /\ Direct
    \/ \E tag \in TagArgs : QH_CREATE_TAG(tag) /\ Direct
    \/ \E tag \in TagArgs, ub \in UB : QH_DELETE_TAG(tag, ub) /\ Direct
    \/ \E mode \in BOOLEAN : Remount(mode) /\ Direct

Spec == Init /\ [][Next]_vars

(***************************************************************************)
(* Runs of a default-mode mount.  The file run is the bridge working on    *)
(* files and folders, remounted in default mode in between; the tagging    *)
(* run is files created, moved and deleted while the operator tags them.   *)
(***************************************************************************)
InitDefaultMode(requests) ==
    /\ tags = InitTags
    /\ files = InitFiles
    /\ blobs = InitBlobs
    /\ tagView = FALSE
    /\ tempFileNumber = 1
    /\ alive = TRUE
    /\ reply = ""
    /\ budget = requests
    /\ frames = <<>>
    /\ AtStart

InitFileRun == InitDefaultMode(MaxFileOps)

NextFileRun ==
    \/ \E file \in DefaultPaths, mode \in Modes : TFSmknod(file, mode) /\ Direct
    \/ \E file \in DefaultPaths, data \in Data : TFSwrite(file, data) /\ Direct
    \/ \E file \in DefaultPaths : FD_UPDATE(file) /\ Direct
    \/ \E length \in Lengths, file \in DefaultPaths : FD_TRUNCATE(length, file) /\ Direct
    \/ \E file \in DefaultPaths : FD_UNLINK(file) /\ Direct
    \/ \E oldPath \in DefaultPaths, newPath \in DefaultPaths : FD_RENAME(oldPath, newPath) /\ Direct
    \/ \E path \in DefaultPaths : FD_MKDIR(path) /\ Direct
    \/ \E path \in DefaultPaths, ub \in UB : FD_RMDIR(path, ub) /\ Direct
    \/ \E mode \in {FALSE} : Remount(mode) /\ Direct

SpecFiles == InitFileRun /\ [][NextFileRun]_vars

InitTagRun == InitDefaultMode(MaxTagOps)

NextTagRun ==
    \/ \E file \in DefaultPaths, mode \in Modes : TFSmknod(file, mode) /\ Direct
    \/ \E file \in DefaultPaths : FD_UNLINK(file) /\ Direct
    \/ \E oldPath \in DefaultPaths, newPath \in DefaultPaths : FD_RENAME(oldPath, newPath) /\ Direct
    \/ \E path \in DefaultPaths : FD_MKDIR(path) /\ Direct
    \/ \E path \in DefaultPaths, tag \in TagArgs : QH_TAG(path, tag) /\ Direct
    \/ \E path \in DefaultPaths, tag \in TagArgs : QH_UNTAG(path, tag) /\ Direct

SpecTagged == InitTagRun /\ [][NextTagRun]_vars

(***************************************************************************)
(* The search run: files are created and tagged, and the operator searches *)
(* by lists of up to MaxListed different tags, "/" among them.             *)
(***************************************************************************)
SearchTags == Names \cup {<<"/">>}

SearchLists ==
    UNION {{l \in [1..n -> SearchTags] : \A i \in 1..n, j \in 1..n : l[i] = l[j] => i = j} :
             n \in 1..MaxListed}

InitSearchRun == InitDefaultMode(MaxSearchOps)

NextSearchRun ==
    \/ \E file \in DefaultPaths, mode \in Modes : TFSmknod(file, mode) /\ Direct
    \/ \E path \in DefaultPaths, tag \in SearchTags : QH_TAG(path, tag) /\ Direct
    \/ \E strict \in {"0", "1"}, l \in SearchLists : QH_SEARCH(strict, serializeNames(l))
                                                      /\ UNCHANGED loop

SpecSearch == InitSearchRun /\ [][NextSearchRun]_vars

(***************************************************************************)
(* The nesting run: the operator creates, deletes, nests and unnests tags. *)
(***************************************************************************)
InitNestRun == InitDefaultMode(MaxNestOps)

NextNestRun ==
    \/ \E tag \in TagArgs : QH_CREATE_TAG(tag) /\ Direct
    \/ \E tag \in TagArgs, ub \in UB : QH_DELETE_TAG(tag, ub) /\ Direct
    \/ \E tag \in TagArgs, parentTag \in TagArgs : QH_NEST(tag, parentTag) /\ Direct
    \/ \E tag \in TagArgs, parentTag \in TagArgs : QH_UNNEST(tag, parentTag) /\ Direct

SpecNest == InitNestRun /\ [][NextNestRun]_vars

(***************************************************************************)
(* The tag-view run: files are created and tagged in default mode, the     *)
(* root directory is mounted again in tag view, and the bridge renames     *)
(* paths of the tag view.                                                  *)
(***************************************************************************)
InitViewRun == InitDefaultMode(MaxViewOps)

NextViewRun ==
    \/ \E file \in {Slash(n) : n \in Names}, mode \in {"S_IFREG"} : TFSmknod(file, mode) /\ Direct
    \/ \E path \in {Slash(n) : n \in Names}, tag \in TagArgs : QH_TAG(path, tag) /\ Direct
    \/ \E tag \in TagArgs : QH_CREATE_TAG(tag) /\ Direct
    \/ \E mode \in {TRUE} : Remount(mode) /\ Direct
    \/ \E oldPath \in TagViewPaths, newPath \in TagViewPaths :
           tagView /\ FD_RENAME(oldPath, newPath) /\ Direct

SpecView == InitViewRun /\ [][NextViewRun]_vars

(***************************************************************************)
(* The read-only run: files are created, written and tagged in default     *)
(* mode, the root directory is mounted again in tag view, and from then on *)
(* the bridge sends its requests with paths of the tag view.               *)
(***************************************************************************)
InitReadOnlyRun == InitDefaultMode(MaxReadOnlyOps)

NextReadOnlyRun ==
    \/ \E file \in {Slash(n) : n \in Names}, mode \in {"S_IFREG"} : TFSmknod(file, mode) /\ Direct
    \/ \E file \in {Slash(n) : n \in Names}, data \in {<<1>>} : TFSwrite(file, data) /\ Direct
    \/ \E path \in {Slash(n) : n \in Names}, tag \in Names :
           ~tagView /\ QH_TAG(path, tag) /\ Direct
    \/ \E mode \in {TRUE} : ~tagView /\ Remount(mode) /\ Direct
    \/ \E file \in TagViewPaths : FD_GET_PATH_WRITE(file) /\ Direct
    \/ \E file \in TagViewPaths : tagView /\ FD_UPDATE(file) /\ Direct
    \/ \E length \in Lengths, file \in TagViewPaths : tagView /\ FD_TRUNCATE(length, file) /\ Direct
    \/ \E file \in TagViewPaths : tagView /\ FD_UNLINK(file) /\ Direct
    \/ \E oldPath \in TagViewPaths, newPath \in TagViewPaths :
           tagView /\ FD_RENAME(oldPath, newPath) /\ Direct
    \/ \E path \in TagViewPaths : tagView /\ FD_MKDIR(path) /\ Direct
    \/ \E path \in TagViewPaths, ub \in UB : tagView /\ FD_RMDIR(path, ub) /\ Direct

SpecReadOnly == InitReadOnlyRun /\ [][NextReadOnlyRun]_vars

(***************************************************************************)
(* The daemon: run() takes one message at a time from the inbound queue    *)
(* and dispatches it, until dispatch returns false; then shutdown() saves  *)
(* the tables to the database file and the process exits.                  *)
(***************************************************************************)
\* LIST_FOLDER_1 and LIST_FOLDER_2: the names of the folders, then of the
\* files, of a folder.
listFolder(W, folderPath) ==
    With(getFolderID(W.tags, splitPathIntoParts(folderPath)), LAMBDA folderID :
        IF folderID = NoID THEN <<>>
        ELSE With(SortedIds({i \in DOMAIN W.tags : W.tags[i].parent_folder = folderID}),
                  LAMBDA folderIDs :
                 [i \in 1..Len(folderIDs) |-> W.tags[folderIDs[i]].tag_name]
                 \o searchNames(W.files, getFileIDsInFolder(W.files, folderID))))

\* GET_TAG_NAME_FROM_ID
getTagNameFromID(T, tagID) == IF tagID \in DOMAIN T THEN T[tagID].tag_name ELSE <<>>

\* listTagChildren: the names of the child tags, then of the tagged files.
listTagChildren(W, tagPath) ==
    With(getTagID(W.tags, tagPath), LAMBDA tagID :
        IF tagID = Diverged THEN Crash(W)
        ELSE IF tagID = NoID THEN Ret(W, <<>>)
        ELSE With(getChildTagIDs(W.tags, tagID), LAMBDA childTagIDs :
                 Ret(W, [i \in 1..Len(childTagIDs) |-> getTagNameFromID(W.tags, childTagIDs[i])]
                        \o getFilenamesUnderTagID(W.tags, W.files, tagID))))

\* dispatch, FD_READ_DIR: a frame per entry of the listing.
FD_READ_DIR(path) ==
    /\ Running
    /\ With(IF tagView THEN listTagChildren(Here, path) ELSE Ret(Here, listFolder(Here, path)),
            LAMBDA o :
                /\ alive' = ~o.x
                /\ frames' = IF o.x THEN <<>> ELSE ListFrames(o.r)
                /\ reply' = IF o.x THEN reply ELSE "")
    /\ budget' = budget - 1
    /\ UNCHANGED <<tags, files, blobs, tagView, tempFileNumber>>

\* dispatch, FD_ADD_TEMP: addTemporaryFile in either mode, then TM_ACK.  The
\* bridge names the placeholder by its counter.
FD_ADD_TEMP(file) ==
    /\ Running
    /\ With(addTemporaryFile(Here, Placeholder(tempFileNumber), file), LAMBDA o :
            /\ alive' = ~o.x
            /\ files' = IF o.x THEN files ELSE o.w.files
            /\ reply' = IF o.x THEN reply ELSE "TM_ACK")
    /\ tempFileNumber' = tempFileNumber + 1
    /\ budget' = budget - 1
    /\ UNCHANGED <<tags, blobs, tagView>>

\* The paths of the requests to the daemon: /b/a is below a folder that no
\* request creates.
LoopPaths == {Slash(<<"a">>), Slash(<<"b">>) \o Slash(<<"a">>)}

ExitVerbs == {"QH_EXIT", "FD_EXIT"}

LoopRequests ==
    {Request(verb, path, <<>>, 0) :
        verb \in {"FD_MKDIR", "FD_ADD_TEMP", "FD_UPDATE", "FD_TRUNCATE"}, path \in LoopPaths}
    \cup {Request("FD_RENAME", pair[1], pair[2], 0) :
            pair \in {p \in LoopPaths \X LoopPaths : p[1] # p[2]}}
    \cup {Request("FD_READ_DIR", path, <<>>, 0) : path \in {<<"/">>, Slash(<<"a">>)}}
    \cup {Request("QH_TAG", Slash(<<"a">>), <<"a">>, 0)}
    \cup {Request("QH_SEARCH", serializeNames(<<<<"a">>>>), <<strict>>, 0) : strict \in {"0", "1"}}
    \cup {Request(verb, <<>>, <<>>, 0) : verb \in ExitVerbs}

InitLoop == InitDefaultMode(MaxLoopOps)

\* queryTFS of the bridge or of the operator's command: mq_send.
Send(q) ==
    /\ Len(inbox) + Len(taken) < MaxLoopOps
    /\ inbox' = Append(inbox, q)
    /\ UNCHANGED <<tags, files, blobs, tagView, tempFileNumber, alive, reply, budget, frames,
                   pc, message, disk, taken, handled, outbox, cli>>

\* A loop that takes the next message whether or not dispatch has returned.
ReceiveEarly ==
    /\ pc \in {"receive", "dispatch"}
    /\ alive
    /\ inbox # <<>>
    /\ message' = Head(inbox)
    /\ inbox' = Tail(inbox)
    /\ taken' = Append(taken, Head(inbox))
    /\ pc' = "dispatch"
    /\ UNCHANGED <<tags, files, blobs, tagView, tempFileNumber, alive, reply, budget, frames,
                   disk, handled, outbox, cli>>

\* run: mq_receive and deserializeMessage.
Receive ==
    /\ pc = "receive"
    /\ alive
    /\ inbox # <<>>
    /\ message' = Head(inbox)
    /\ inbox' = Tail(inbox)
    /\ taken' = Append(taken, Head(inbox))
    /\ pc' = "dispatch"
    /\ UNCHANGED <<tags, files, blobs, tagView, tempFileNumber, alive, reply, budget, frames,
                   disk, handled, outbox, cli>>

\* The message in hand has the verb.
Taking(verb) == pc = "dispatch" /\ message.verb = verb

\* The verbs answered with messageQueryHandler, on the outbound queue of the
\* operator's commands.
OperatorVerbs == {"QH_TEST", "QH_TAG", "QH_SEARCH"}

\* mq_send of the frames of a reply: each goes to the end of the queue.  A
\* frame is kept with the number of the request it answers.
Sent(queue, fs, ticket) ==
    queue \o [i \in 1..Len(fs) |-> [frame |-> fs[i], ticket |-> ticket]]

\* dispatch has returned: run receives again on true and returns on false.
\* The frames of a reply to the operator are on its outbound queue by then.
Returned(continue) ==
    /\ handled' = Append(handled, message)
    /\ pc' = IF continue THEN "receive" ELSE "shutdown"
    /\ outbox' = IF message.verb \in OperatorVerbs THEN Sent(outbox, frames', Len(taken))
                 ELSE outbox
    /\ UNCHANGED <<inbox, message, disk, taken, cli>>

\* dispatch, by the verb of the message in hand.
dispatch ==
    \/ Taking("FD_MKDIR") /\ FD_MKDIR(message.path) /\ OneReply /\ Returned(TRUE)
    \/ Taking("FD_ADD_TEMP") /\ FD_ADD_TEMP(message.path) /\ OneReply /\ Returned(TRUE)
    \/ /\ Taking("FD_UPDATE")
       /\ Running
       /\ Done(IF tagView THEN Ret(Here, 0) ELSE updateFile(Here, message.path), Ack)
       /\ OneReply
       /\ Returned(TRUE)
    \/ /\ Taking("FD_TRUNCATE")
       /\ FD_TRUNCATE(message.length, message.path)
       /\ OneReply
       /\ Returned(TRUE)
    \/ /\ Taking("FD_RENAME")
       /\ Running
       /\ Done(IF tagView THEN renameTaggedPath(Here, message.path, message.other)
               ELSE renamePath(Here, message.path, message.other), AckOrFail)
       /\ OneReply
       /\ Returned(TRUE)
    \/ Taking("FD_READ_DIR") /\ FD_READ_DIR(message.path) /\ Returned(TRUE)
    \/ Taking("QH_TAG") /\ QH_TAG(message.path, message.other) /\ OneReply /\ Returned(TRUE)
    \/ Taking("QH_SEARCH") /\ QH_SEARCH(message.other[1], message.path) /\ Returned(TRUE)
    \/ /\ pc = "dispatch"
       /\ message.verb \in ExitVerbs
       /\ Running
       /\ budget' = budget - 1
       /\ frames' = <<>>
       /\ UNCHANGED <<tags, files, blobs, tagView, tempFileNumber, alive, reply>>
       /\ Returned(FALSE)

\* A shutdown that leaves the database file as it was.
shutdownUnsaved ==
    /\ pc = "shutdown"
    /\ pc' = "exited"
    /\ UNCHANGED <<tags, files, blobs, tagView, tempFileNumber, alive, reply, budget, frames,
                   inbox, message, disk, taken, handled, outbox, cli>>

\* shutdown and saveDBToStorage: the tables go to the database file.
shutdown ==
    /\ pc = "shutdown"
    /\ disk' = Database(TRUE, tags, files)
    /\ pc' = "exited"
    /\ UNCHANGED <<tags, files, blobs, tagView, tempFileNumber, alive, reply, budget, frames,
                   inbox, message, taken, handled, outbox, cli>>

NextLoop ==
    \/ \E q \in LoopRequests : Send(q)
    \/ Receive
    \/ dispatch
    \/ shutdown

SpecLoop == InitLoop /\ [][NextLoop]_vars

\* The daemon is a process of its own: run() goes on whenever a message is
\* on the queue, dispatch whenever it has one in hand, and shutdown once
\* run() has returned.
SpecLoopFair == SpecLoop /\ WF_vars(Receive) /\ WF_vars(dispatch) /\ WF_vars(shutdown)

\* A restart that finds no database file and creates the tables anew.
restartFresh ==
    /\ pc = "exited"
    /\ tags' = InitTags
    /\ files' = InitFiles
    /\ inbox' = <<>>
    /\ outbox' = <<>>
    /\ pc' = "receive"
    /\ tempFileNumber' = 1
    /\ UNCHANGED <<blobs, tagView, alive, reply, budget, frames, message, disk, taken,
                   handled, cli>>

\* --init on the same root directory after the daemon has exited: initMQ
\* creates the queues anew, initDB loads the tables from the database file
\* when there is one (loadDBFromStorage), and the new bridge process counts
\* its placeholder names from 1.
restart ==
    /\ pc = "exited"
    /\ tags' = IF disk.written THEN disk.tags ELSE InitTags
    /\ files' = IF disk.written THEN disk.files ELSE InitFiles
    /\ inbox' = <<>>
    /\ outbox' = <<>>
    /\ pc' = "receive"
    /\ tempFileNumber' = 1
    /\ UNCHANGED <<blobs, tagView, alive, reply, budget, frames, message, disk, taken,
                   handled, cli>>

NextRestart ==
    \/ \E q \in LoopRequests : Send(q)
    \/ Receive
    \/ dispatch
    \/ shutdown
    \/ restart

SpecRestart == InitLoop /\ [][NextRestart]_vars

(***************************************************************************)
(* The operator's commands.  Every command is a process of its own: initMQ *)
(* opens the two queues and exchanges QH_TEST with the daemon, and         *)
(* queryTFS sends the request and reads /tfs_querymq until a frame is      *)
(* final.  All commands read the same queue.                               *)
(***************************************************************************)
\* dispatch, QH_TEST: TM_ACK and the number of messages dispatched.
QH_TEST ==
    /\ Running
    /\ reply' = "TM_ACK"
    /\ budget' = budget - 1
    /\ UNCHANGED <<tags, files, blobs, tagView, tempFileNumber, alive>>

\* The requests of the commands --tag /a a and --search a.
OperatorQueries ==
    {Request("QH_TAG", Slash(<<"a">>), <<"a">>, 0),
     Request("QH_SEARCH", serializeNames(<<<<"a">>>>), <<"0">>, 0)}

\* The number of the next request sent to the daemon.
NextTicket == Len(inbox) + Len(taken) + 1

\* A frame as a command has read it: the request it answers, the request the
\* command was waiting for, and the function that read it.
FrameRead(entry, ticket, by) ==
    [frame |-> entry.frame, ticket |-> entry.ticket, for |-> ticket, by |-> by]

\* initMQ of a command: mq_timedsend of QH_TEST.
testSend(p) ==
    /\ cli[p].at = "initMQ"
    /\ inbox' = Append(inbox, Request("QH_TEST", <<>>, <<>>, 0))
    /\ cli' = [cli EXCEPT ![p] = Command("handshake", NextTicket, cli[p].read)]
    /\ UNCHANGED <<tags, files, blobs, tagView, tempFileNumber, alive, reply, budget, frames,
                   pc, message, disk, taken, handled, outbox>>

\* initMQ of a command: mq_timedreceive takes the frame at the head of the
\* queue.
testReceive(p) ==
    /\ cli[p].at = "handshake"
    /\ outbox # <<>>
    /\ outbox' = Tail(outbox)
    /\ cli' = [cli EXCEPT ![p] =
                  Command("queryTFS", cli[p].ticket,
                          Append(cli[p].read, FrameRead(Head(outbox), cli[p].ticket, "initMQ")))]
    /\ UNCHANGED <<tags, files, blobs, tagView, tempFileNumber, alive, reply, budget, frames,
                   inbox, pc, message, disk, taken, handled>>

\* queryTFS of a command: mq_send of the request.
querySend(p, q) ==
    /\ cli[p].at = "queryTFS"
    /\ inbox' = Append(inbox, q)
    /\ cli' = [cli EXCEPT ![p] = Command("reading", NextTicket, cli[p].read)]
    /\ UNCHANGED <<tags, files, blobs, tagView, tempFileNumber, alive, reply, budget, frames,
                   pc, message, disk, taken, handled, outbox>>

\* queryTFS of a command: mq_receive takes the frame at the head of the
\* queue, and the loop ends with a frame that is complete.
queryReceive(p) ==
    /\ cli[p].at = "reading"
    /\ outbox # <<>>
    /\ outbox' = Tail(outbox)
    /\ cli' = [cli EXCEPT ![p] =
                  Command(IF Head(outbox).frame.complete THEN "exited" ELSE "reading",
                          cli[p].ticket,
                          Append(cli[p].read,
                                 FrameRead(Head(outbox), cli[p].ticket, "queryTFS")))]
    /\ UNCHANGED <<tags, files, blobs, tagView, tempFileNumber, alive, reply, budget, frames,
                   inbox, pc, message, disk, taken, handled>>

\* dispatch, by the verb of the message in hand, for the verbs of the
\* commands.
dispatchOperator ==
    \/ Taking("QH_TEST") /\ QH_TEST /\ OneReply /\ Returned(TRUE)
    \/ Taking("QH_TAG") /\ QH_TAG(message.path, message.other) /\ OneReply /\ Returned(TRUE)
    \/ Taking("QH_SEARCH") /\ QH_SEARCH(message.other[1], message.path) /\ Returned(TRUE)

InitOperators == InitDefaultMode(2 * MaxOperators)

NextOperators ==
    \/ \E p \in Operators : testSend(p)
    \/ \E p \in Operators : testReceive(p)
    \/ \E p \in Operators, q \in OperatorQueries : querySend(p, q)
    \/ \E p \in Operators : queryReceive(p)
    \/ Receive
    \/ dispatchOperator

SpecOperators == InitOperators /\ [][NextOperators]_vars

(***************************************************************************)
(* The tag graph.                                                          *)
(***************************************************************************)
\* The tag rows: the root tag 0 and the rows with parent_folder = 0.
TagRows == {i \in DOMAIN tags : i = 0 \/ tags[i].parent_folder = 0}

Lists(text, id) == Contains(deserializeStrings(text), id)

\* An edge from p to c: c is a child of p by either list.
TagEdge(p, c) == Lists(tags[p].child_tags, c) \/ Lists(tags[c].parent_tags, p)

\* The tag rows reached from the rows of S along edges, in at most n steps.
RECURSIVE TagsBelow(_, _)
TagsBelow(S, n) ==
    IF n = 0 THEN {}
    ELSE LET next == {c \in TagRows : \E p \in S : TagEdge(p, c)}
         IN  next \cup TagsBelow(next, n - 1)

\* C1.  Edge symmetry: for every pair of tag rows t1, t2 (the root tag 0
\* included), t2 is listed in t1.child_tags if and only if t1 is listed in
\* t2.parent_tags.
C1_EdgeSymmetry ==
    \A t1 \in TagRows, t2 \in TagRows :
        Lists(tags[t1].child_tags, t2) <=> Lists(tags[t2].parent_tags, t1)

\* C2.  Acyclicity: the graph of the parent_tags and child_tags entries of
\* the tag rows (the root tag 0 included) has no directed cycle.
C2_Acyclic == \A t \in TagRows : t \notin TagsBelow({t}, Cardinality(TagRows))

\* C8.  Global tag-name uniqueness: no two tag rows with parent_folder = 0
\* have the same tag_name.
C8_TagNamesUnique ==
    \A t1 \in DOMAIN tags, t2 \in DOMAIN tags :
        (/\ tags[t1].parent_folder = 0
         /\ tags[t2].parent_folder = 0
         /\ tags[t1].tag_name = tags[t2].tag_name) => t1 = t2

\* C9.  Delete safety: every file id listed in the files_ids of a tag row
\* names an existing file row.
C9_TaggedFilesExist ==
    \A t \in TagRows : \A id \in SeqToSet(deserializeStrings(tags[t].files_ids)) :
        id \in DOMAIN files


\* The tags reached from the tags of S by following parent_tags upward.
RECURSIVE TagsAbove(_, _)
TagsAbove(S, n) ==
    IF n = 0 THEN {}
    ELSE LET next == {p \in TagRows : \E c \in S : Lists(tags[c].parent_tags, p)}
         IN  next \cup TagsAbove(next, n - 1)

\* The tag a nest request names, when getTagID resolves it to a row.
Resolved(tag) == getTagID(tags, tag) \in TagRows

\* C3. Cycle rejection: a nest request whose child resolves to the same tag
\* as its parent, or to a tag reached from the parent by following
\* parent_tags, is answered "Cyclic check error." and changes no tag row.
C3_CycleRejected ==
    [][\A tag \in TagArgs, parentTag \in TagArgs :
          (/\ Resolved(tag) /\ Resolved(parentTag)
           /\ \/ getTagID(tags, tag) = getTagID(tags, parentTag)
              \/ getTagID(tags, tag) \in TagsAbove({getTagID(tags, parentTag)},
                                                   Cardinality(TagRows))
           /\ QH_NEST(tag, parentTag))
          => (reply' = "Cyclic check error." /\ tags' = tags)]_vars

\* The hashes in use: those of the file rows and those naming a blob.
RowHashes == {files[i].hash : i \in DOMAIN files}
BlobHashes == {name.h : name \in {n \in DOMAIN blobs : n.ext = ""}}
ShadowPresent == \E n \in DOMAIN blobs : n.ext # ""

\* C4. Reference closure: between requests the blob named by a hash exists
\* exactly when some file row has that hash, a placeholder token counting as
\* a hash.
C4_ReferenceClosure ==
    \A h \in RowHashes \cup BlobHashes : (h \in BlobHashes) <=> (h \in RowHashes)

\* C5. Hash integrity: when no .WRITE or .TRUNCATE shadow is present, the
\* blob named by the hash of a file row exists and has that hash as the
\* digest of its content.  Stated for the rows whose hash is a digest: a row
\* that still holds the placeholder token it was created with is left out.
C5_HashIntegrity ==
    ~ShadowPresent =>
        \A i \in DOMAIN files :
            files[i].hash.t = 0 =>
                /\ files[i].hash \in BlobHashes
                /\ Digest(blobs[BlobName(files[i].hash)]) = files[i].hash

\* The folder rows: those under the root folder 1 or under another folder.
FolderRows == {i \in DOMAIN tags : tags[i].parent_folder >= 1}

\* C6. Folder sibling uniqueness: among the file rows and folder rows of one
\* parent folder no two entries have the same name.
C6_SiblingsUnique ==
    /\ \A f1 \in DOMAIN files, f2 \in DOMAIN files :
           (files[f1].parent_folder = files[f2].parent_folder
            /\ files[f1].filename = files[f2].filename) => f1 = f2
    /\ \A d1 \in FolderRows, d2 \in FolderRows :
           (tags[d1].parent_folder = tags[d2].parent_folder
            /\ tags[d1].tag_name = tags[d2].tag_name) => d1 = d2
    /\ \A f \in DOMAIN files, d \in FolderRows :
           ~(files[f].parent_folder = tags[d].parent_folder
             /\ files[f].filename = tags[d].tag_name)

\* The file ids a tag row lists, in order.
TaggedIDs(t) == deserializeStrings(tags[t].files_ids)

\* C7. Tagged-name uniqueness: no tag lists the same file id twice, nor two
\* ids whose file rows have the same filename.
C7_TaggedNamesUnique ==
    \A t \in TagRows :
        \A i \in 1..Len(TaggedIDs(t)), j \in 1..Len(TaggedIDs(t)) :
            i # j =>
                /\ TaggedIDs(t)[i] # TaggedIDs(t)[j]
                /\ (TaggedIDs(t)[i] \in DOMAIN files /\ TaggedIDs(t)[j] \in DOMAIN files)
                   => files[TaggedIDs(t)[i]].filename # files[TaggedIDs(t)[j]].filename


\* The id of the file row a default-mode path names, NoID when there is none.
FileAt(path) ==
    With(splitPathIntoParts(path), LAMBDA parts :
    With(getFolderID(tags, popRest(parts)), LAMBDA parentFolderID :
        IF parentFolderID = NoID THEN NoID
        ELSE getFileID(files, popBack(parts), parentFolderID)))

\* C10. Rename preserves tags: after a successful default-mode rename of a
\* file onto a path where a file exists, every tag that listed the
\* overwritten file lists the renamed file, and the overwritten row is gone.
C10_RenamePreservesTags ==
    [][\A oldPath \in DefaultPaths, newPath \in DefaultPaths :
          (/\ ~tagView
           /\ FileAt(oldPath) # NoID /\ FileAt(newPath) # NoID
           /\ FD_RENAME(oldPath, newPath)
           /\ alive' /\ reply' = "TM_ACK")
          => /\ FileAt(newPath) \notin DOMAIN files'
             /\ \A t \in TagRows :
                    Lists(tags[t].files_ids, FileAt(newPath))
                    => Lists(tags'[t].files_ids, FileAt(oldPath))]_vars


\* The ids the files_ids of the tag of a name lists; none when the name is
\* not a tag.
TaggedWith(name) == SeqToSet(getFileIDsUnderTagID(tags, getTagID(tags, name)))

AllAreTags(l) == \A i \in 1..Len(l) : getTagID(tags, l[i]) \in DOMAIN tags

InAll(l) ==
    IF AllAreTags(l) THEN {id \in TaggedWith(l[1]) : \A i \in 1..Len(l) : id \in TaggedWith(l[i])}
    ELSE {}

InAny(l) ==
    IF AllAreTags(l) THEN UNION {TaggedWith(l[i]) : i \in 1..Len(l)} ELSE {}

\* The replies that list the files of S, each once, in some order.
Listings(S) ==
    {ListFrames(searchNames(files, order)) :
        order \in {o \in [1..Cardinality(S) -> S] :
                      \A i \in 1..Cardinality(S), j \in 1..Cardinality(S) : o[i] = o[j] => i = j}}

\* C11. Search result: a strict search answers with exactly the files listed
\* by every tag of the list and a non-strict search with exactly the files
\* listed by at least one of them; nothing when a name of the list is not a
\* tag.
C11_SearchResult ==
    [][\A l \in SearchLists :
          /\ (QH_SEARCH("1", serializeNames(l)) /\ alive') => frames' \in Listings(InAll(l))
          /\ (QH_SEARCH("0", serializeNames(l)) /\ alive') => frames' \in Listings(InAny(l))]_vars

SameBag(s, t) == \A id \in SeqToSet(s) \cup SeqToSet(t) : countIn(s, id) = countIn(t, id)

\* C12. Search order-independence: two lists of the same tags in different
\* orders give the same multiset of files, in strict and in non-strict search.
C12_SearchOrder ==
    \A l1 \in SearchLists, l2 \in SearchLists :
        SeqToSet(l1) = SeqToSet(l2) =>
            /\ SameBag(findFileIDsWithTags(tags, deserializeNames(serializeNames(l1))),
                       findFileIDsWithTags(tags, deserializeNames(serializeNames(l2))))
            /\ SameBag(findFileIDsWithAnyOfTags(tags, deserializeNames(serializeNames(l1))),
                       findFileIDsWithAnyOfTags(tags, deserializeNames(serializeNames(l2))))


\* The content a file row reads: that of the blob its hash names.
Reads(F, B, id) == B[BlobName(F[id].hash)]

\* A truncate of the file at a path that shares its blob with another row
\* and whose content the length changes.
SharedAndCut(length, file) ==
    /\ ~tagView
    /\ FileAt(file) # NoID
    /\ countHash(files, files[FileAt(file)].hash) > 1
    /\ BlobName(files[FileAt(file)].hash) \in DOMAIN blobs
    /\ Truncated(Reads(files, blobs, FileAt(file)), length) # Reads(files, blobs, FileAt(file))

\* C13. Copy-on-truncate: a truncate that changes the content of a file
\* whose hash other rows share leaves those rows their hash and the content
\* they read, and the truncated row afterwards has another hash whose blob
\* holds the truncated content.
C13_CopyOnTruncate ==
    [][\A length \in Lengths, file \in DefaultPaths :
          (SharedAndCut(length, file) /\ FD_TRUNCATE(length, file) /\ alive')
          => /\ \A j \in DOMAIN files \ {FileAt(file)} :
                    files[j].hash = files[FileAt(file)].hash
                    => /\ j \in DOMAIN files' /\ files'[j].hash = files[j].hash
                       /\ BlobName(files[j].hash) \in DOMAIN blobs'
                       /\ Reads(files', blobs', j) = Reads(files, blobs, j)
             /\ files'[FileAt(file)].hash # files[FileAt(file)].hash
             /\ BlobName(files'[FileAt(file)].hash) \in DOMAIN blobs'
             /\ Reads(files', blobs', FileAt(file))
                    = Truncated(Reads(files, blobs, FileAt(file)), length)]_vars


\* A tag that lists a file or a child tag.
NotEmpty(id) ==
    Len(getFileIDsUnderTagID(tags, id)) # 0 \/ Len(getChildTagIDs(tags, id)) # 0

\* C14. Delete-tag guard: deleteTag answers ENOENT for a tag that does not
\* resolve and ENOTEMPTY for one that lists a file or a child tag, changing
\* no row; otherwise it deletes the tag row and takes its id out of the
\* child_tags of each of its parents.
C14_DeleteTagGuard ==
    [][\A tag \in TagArgs, ub \in UB :
          QH_DELETE_TAG(tag, ub) =>
              IF getTagID(tags, tag) = NoID
              THEN reply' = DeleteTagReply(ENOENT) /\ tags' = tags
              ELSE IF getTagID(tags, tag) \in DOMAIN tags /\ NotEmpty(getTagID(tags, tag))
              THEN reply' = DeleteTagReply(ENOTEMPTY) /\ tags' = tags
              ELSE /\ alive'
                   /\ reply' = DeleteTagReply(0)
                   /\ getTagID(tags, tag) \notin DOMAIN tags'
                   /\ \A p \in SeqToSet(getParentTagIDs(tags, getTagID(tags, tag))) :
                          p \in DOMAIN tags'
                          => ~Lists(tags'[p].child_tags, getTagID(tags, tag))]_vars


\* The file a path of the tag view names: the file of that leaf name listed
\* by the tag of the parent path, NoID when there is none.
TaggedAt(path) ==
    IF getParentTagIDFromPath(tags, path) \in DOMAIN tags
    THEN getTaggedFileID(tags, files, getParentTagIDFromPath(tags, path), getFilename(path))
    ELSE NoID

\* The nesting edges of the tag rows.
Nesting(T) == [id \in DOMAIN T |-> <<T[id].parent_tags, T[id].child_tags>>]

\* C15. Tag-view file move: renaming /R/x to /G/x, for a file x tagged with R
\* while G lists no file named x, succeeds, takes x out of the files of R,
\* puts it into the files of G and changes no nesting edge; renaming a tagged
\* file to a different leaf name fails and changes nothing.
C15_TagViewFileMove ==
    [][\A oldPath \in TagViewPaths, newPath \in TagViewPaths :
          (/\ tagView
           /\ TaggedAt(oldPath) # NoID
           /\ getParentTagIDFromPath(tags, newPath) \in DOMAIN tags
           /\ FD_RENAME(oldPath, newPath))
          => IF getFilename(oldPath) # getFilename(newPath)
             THEN reply' = "TM_FAIL" /\ tags' = tags /\ files' = files
             ELSE TaggedAt(newPath) = NoID
                  => /\ reply' = "TM_ACK"
                     /\ ~Lists(tags'[getParentTagIDFromPath(tags, oldPath)].files_ids,
                               TaggedAt(oldPath))
                     /\ Lists(tags'[getParentTagIDFromPath(tags, newPath)].files_ids,
                              TaggedAt(oldPath))
                     /\ Nesting(tags') = Nesting(tags)]_vars


\* The reply is whole: no frame, or frames the last of which is final.
ReplyEnded(fs) == fs = <<>> \/ fs[Len(fs)].complete

\* C16. Serial ordering: requests are dispatched in the order they are taken
\* from the inbound queue, one at a time: a request is taken only when every
\* request taken before has been dispatched and its reply is whole, and the
\* request dispatched is the one taken last.
C16_SerialOrder ==
    [][/\ taken' # taken => /\ handled = taken
                            /\ taken' = Append(taken, Head(inbox))
                            /\ ReplyEnded(frames)
       /\ handled' # handled => /\ handled' = Append(handled, taken[Len(taken)])
                                /\ handled' = taken
                                /\ taken' = taken]_vars

\* The second request is in hand, the first has been dispatched, and a third
\* waits on the queue.
C16_Witness == pc = "dispatch" /\ Len(handled) = 1 /\ Len(inbox) = 1

\* Exactly the last frame carries the final flag.
LastIsFinal(fs) == fs # <<>> /\ \A i \in 1..Len(fs) : fs[i].complete <=> i = Len(fs)

\* The entries a listing or search request asks for, in the state it is
\* dispatched in.
Entries(q) ==
    IF q.verb = "FD_READ_DIR" THEN listFolder(Here, q.path)
    ELSE IF q.other = <<"1">> THEN findFileIDsWithTags(tags, deserializeNames(q.path))
    ELSE findFileIDsWithAnyOfTags(tags, deserializeNames(q.path))

\* C17. Reply framing: the reply to an answered request is a non-empty
\* sequence of frames of which exactly the last is final; an empty listing or
\* search is one final frame with an empty content, and one of n > 0 entries
\* is n frames.
C17_ReplyFraming ==
    [][(handled' # handled /\ alive' /\ message.verb \notin ExitVerbs)
       => /\ LastIsFinal(frames')
          /\ message.verb \in {"FD_READ_DIR", "QH_SEARCH"}
             => IF Len(Entries(message)) = 0
                THEN frames' = <<Frame(<<>>, TRUE)>>
                ELSE Len(frames') = Len(Entries(message))]_vars

\* A listing of two entries has been answered, and so has an empty one.
C17_Witness ==
    /\ Len(handled) = 3
    /\ handled[3].verb = "FD_READ_DIR"
    /\ Len(frames) = 2
    /\ ~frames[1].complete

\* C18. Reply liveness: a request in dispatch whose verb is not one of the
\* two shutdown verbs is eventually answered with a final frame.
C18_ReplyLiveness ==
    (pc = "dispatch" /\ message.verb \notin ExitVerbs)
    ~> (handled = taken /\ LastIsFinal(frames))

\* C19. Shutdown: on QH_EXIT or FD_EXIT the dispatcher leaves its loop, no
\* request is taken or dispatched afterwards, and the process exits only with
\* the tables written to the database file.
C19_Shutdown ==
    /\ [](pc = "exited" => disk = Database(TRUE, tags, files))
    /\ [][/\ (pc = "dispatch" /\ message.verb \in ExitVerbs /\ pc' # pc) => pc' = "shutdown"
          /\ pc \in {"shutdown", "exited"}
             => /\ pc' \in {"shutdown", "exited"}
                /\ taken' = taken
                /\ handled' = handled
                /\ frames' = frames]_vars

\* The daemon has exited after a request that changed the tables, with a
\* request left on the queue.
C19_Witness ==
    /\ pc = "exited"
    /\ tags # InitTags
    /\ inbox # <<>>
    /\ handled[Len(handled)].verb \in ExitVerbs


\* The operation a mutation verb of the bridge calls, in the mode of the
\* mount.
Mutation(verb, path, newPath, length, ub) ==
    IF verb = "FD_MKDIR" THEN (IF tagView THEN createTag(Here, path) ELSE createFolder(Here, path))
    ELSE IF verb = "FD_RMDIR"
    THEN (IF tagView THEN deleteTag(Here, path, ub) ELSE deleteFolder(Here, path))
    ELSE IF verb = "FD_UNLINK"
    THEN (IF tagView THEN untagPath(Here, path) ELSE deleteFile(Here, path).o)
    ELSE IF verb = "FD_RENAME"
    THEN (IF tagView THEN renameTaggedPath(Here, path, newPath)
          ELSE renamePath(Here, path, newPath))
    ELSE (IF tagView THEN Ret(Here, 1) ELSE truncateFile(Here, length, path))

\* The ACK token for 0, else the value in decimal.
Conventional(returnValue) == IF returnValue = 0 THEN "TM_ACK" ELSE ToString(returnValue)

\* The replies to the four verbs other than FD_RENAME follow the convention.
ErrnoReplies ==
    /\ \A path \in Paths :
          (FD_MKDIR(path) /\ alive')
          => reply' = Conventional(Mutation("FD_MKDIR", path, <<>>, 0, "crash").r)
    /\ \A path \in Paths, ub \in UB :
          (FD_RMDIR(path, ub) /\ alive')
          => reply' = Conventional(Mutation("FD_RMDIR", path, <<>>, 0, ub).r)
    /\ \A file \in Paths :
          (FD_UNLINK(file) /\ alive')
          => reply' = Conventional(Mutation("FD_UNLINK", file, <<>>, 0, "crash").r)
    /\ \A length \in Lengths, file \in Paths :
          (FD_TRUNCATE(length, file) /\ alive')
          => reply' = Conventional(Mutation("FD_TRUNCATE", file, <<>>, length, "crash").r)

\* C20. Response conventions: to FD_MKDIR, FD_RMDIR, FD_UNLINK, FD_RENAME and
\* FD_TRUNCATE the reply is the ACK token exactly when the operation returned
\* 0, and otherwise the decimal value of the error code it returned.
C20_ResponseConventions ==
    [][/\ ErrnoReplies
       /\ \A oldPath \in Paths, newPath \in Paths :
             (FD_RENAME(oldPath, newPath) /\ alive')
             => reply' = Conventional(Mutation("FD_RENAME", oldPath, newPath, 0, "crash").r)]_vars

\* C20 as the code has it: FD_MKDIR, FD_RMDIR, FD_UNLINK and FD_TRUNCATE are
\* answered with the ACK token exactly when the operation returned 0 and
\* otherwise with the decimal value it returned; FD_RENAME is answered with
\* the ACK token exactly when the operation returned 0 and otherwise with the
\* token TM_FAIL, whatever the value.
C20_RepliesAsSent ==
    [][/\ ErrnoReplies
       /\ \A oldPath \in Paths, newPath \in Paths :
             (FD_RENAME(oldPath, newPath) /\ alive')
             => reply' = IF Mutation("FD_RENAME", oldPath, newPath, 0, "crash").r = 0
                         THEN "TM_ACK" ELSE "TM_FAIL"]_vars

\* A rename has been refused in tag view: the daemon is alive and its last
\* reply is the token that only FD_RENAME sends.
C20_Witness == alive /\ tagView /\ reply = "TM_FAIL" /\ budget < MaxOps


\* The blob a path resolves to: whether the parent folder is found, the hash
\* of the file, and the content of the blob of that name.
ResolvesTo(T, F, B, path) ==
    <<getFilePath(World(T, F, B), path),
      IF BlobName(getFilePath(World(T, F, B), path).hash) \in DOMAIN B
      THEN <<B[BlobName(getFilePath(World(T, F, B), path).hash)]>> ELSE <<>>>>

FolderOf(path) == getFolderID(tags, popRest(splitPathIntoParts(path)))

RowsAt(path) ==
    {i \in DOMAIN files : /\ files[i].filename = popBack(splitPathIntoParts(path))
                          /\ files[i].parent_folder = FolderOf(path)}

\* The empty string as a result of getFilePath.
EmptyPath == [found |-> FALSE, hash |-> NoHash]

\* C22. getFilePath(path) is {root}/{hash} of the file when the parent folder
\* resolves and a file of that name exists in it, and the empty string in
\* every other case: parent folder missing, or parent present and no such file.
C22_GetFilePath ==
    \A path \in DefaultPaths :
        IF FolderOf(path) # NoID /\ RowsAt(path) # {}
        THEN /\ getFilePath(Here, path).found
             /\ \E i \in RowsAt(path) : getFilePath(Here, path).hash = files[i].hash
        ELSE getFilePath(Here, path) = EmptyPath

\* C22 as the code has it: the empty string exactly when the parent folder
\* does not resolve; with the parent present, {root}/ followed by the hash of
\* the file of that name, and by nothing when there is no such file.
C22_PathUnderRoot ==
    \A path \in DefaultPaths :
        IF FolderOf(path) = NoID THEN getFilePath(Here, path) = EmptyPath
        ELSE /\ getFilePath(Here, path).found
             /\ IF RowsAt(path) = {} THEN getFilePath(Here, path).hash = NoHash
                ELSE \E i \in RowsAt(path) : getFilePath(Here, path).hash = files[i].hash

\* A file exists at one path, another path has its parent folder and no file,
\* and the parent folder of a third does not resolve.
C22_Witness ==
    /\ \E path \in DefaultPaths : FolderOf(path) # NoID /\ RowsAt(path) # {}
    /\ \E path \in DefaultPaths : FolderOf(path) # NoID /\ RowsAt(path) = {}
    /\ \E path \in DefaultPaths : FolderOf(path) = NoID


\* The tag rows of a name.
TagsNamed(name) ==
    {i \in DOMAIN tags : tags[i].parent_folder = 0 /\ tags[i].tag_name = name}

\* The tags of the leaf name of a tag-view path above which every other
\* component of the path names a tag.
LeavesUnder(path) ==
    {t \in TagsNamed(popBack(splitPathIntoParts(path))) :
        \A i \in 1..(Len(splitPathIntoParts(path)) - 1) :
            \E p \in TagsNamed(splitPathIntoParts(path)[i]) :
                p \in TagsAbove({t}, Cardinality(TagRows))}

\* C23. Tag-view path resolution: /t0/.../tn resolves to the id of tn exactly
\* when a tag named tn exists and every other component names an ancestor of
\* tn, in any order, and to nothing otherwise; "/" resolves to the root tag 0.
C23_TagPathResolution ==
    /\ getTagID(tags, <<"/">>) = 0
    /\ \A path \in TagViewPaths :
           IF LeavesUnder(path) # {} THEN getTagID(tags, path) \in LeavesUnder(path)
           ELSE getTagID(tags, path) = NoID


\* The ids of the rows of the table After that are not rows of Before.
NewIDs(Before, After) == DOMAIN After \ DOMAIN Before

\* Every new id is greater than every id of Assigned.
AllGreater(new, Assigned) == \A id \in new : \A old \in Assigned : id > old

\* A file is deleted and a file is created next: the new row's id is greater
\* than the ids of the rows there were, the deleted row's among them.
FreedFileIDNotReissued ==
    \A path \in DefaultPaths, newPath \in DefaultPaths :
        With(deleteFile(Here, path).o, LAMBDA gone :
        With(addTemporaryFile(gone.w, Placeholder(tempFileNumber), newPath), LAMBDA made :
            (FileAt(path) # NoID /\ ~gone.x /\ gone.r = 0 /\ ~made.x)
            => AllGreater(NewIDs(gone.w.files, made.w.files), DOMAIN files)))

\* The same for a folder deleted and a folder created next, and for a tag
\* deleted and a tag created next.
FreedTagIDNotReissued ==
    /\ \A path \in DefaultPaths, newPath \in DefaultPaths :
           With(deleteFolder(Here, path), LAMBDA gone :
           With(createFolder(gone.w, newPath), LAMBDA made :
               (~gone.x /\ gone.r = 0 /\ ~made.x /\ made.r = 0)
               => AllGreater(NewIDs(gone.w.tags, made.w.tags), DOMAIN tags)))
    /\ \A tag \in Names, newTag \in Names, ub \in UB :
           With(deleteTag(Here, tag, ub), LAMBDA gone :
           With(createTag(gone.w, newTag), LAMBDA made :
               (~gone.x /\ gone.r = 0 /\ ~made.x /\ made.r = 0)
               => AllGreater(NewIDs(gone.w.tags, made.w.tags), DOMAIN tags)))

\* C24. Monotonic ids: the id of a new file row, and likewise of a new tag or
\* folder row, is greater than every id assigned before in its table: greater
\* than the ids of the rows present, and, when a row has just been deleted,
\* greater than the id that row had.
C24_MonotonicIds ==
    /\ [][/\ AllGreater(NewIDs(files, files'), DOMAIN files)
          /\ AllGreater(NewIDs(tags, tags'), DOMAIN tags)]_vars
    /\ [](FreedFileIDNotReissued /\ FreedTagIDNotReissued)

\* C25. Placeholder uniqueness: a file create inserts a file row whose
\* placeholder token differs from the hash of every other file row present
\* at that moment, across creates, releases, deletes and remounts.
C25_PlaceholderUnique ==
    [][\A new \in DOMAIN files' \ DOMAIN files :
          \A other \in DOMAIN files' \ {new} : files'[new].hash # files'[other].hash]_vars


\* The file ids a tag row of a table lists, as a set.
ListedBy(T, t) == SeqToSet(getFileIDsUnderTagID(T, t))

\* The files of the folder a path names, and those of them whose name a file
\* listed by the tag t already has.
FilesInside(path) ==
    {i \in DOMAIN files : files[i].parent_folder = getFolderID(tags, splitPathIntoParts(path))}

NameTaken(t, i) == \E id \in ListedBy(tags, t) : getFilenameFromID(files, id) = files[i].filename

\* All rows of the tags table but t are as they were.
OnlyRowChanged(t) ==
    /\ DOMAIN tags' = DOMAIN tags
    /\ \A r \in DOMAIN tags \ {t} : tags'[r] = tags[r]

\* tagFiles on a file f and a tag t.
FileTagged(t, f) ==
    IF NameTaken(t, f) THEN reply' = TagReply(EEXIST) /\ tags' = tags
    ELSE /\ reply' = TagReply(0)
         /\ getFileIDsUnderTagID(tags', t) = Append(getFileIDsUnderTagID(tags, t), f)
         /\ OnlyRowChanged(t)

\* The files that a call has added to the list of the tag t.
Added(t) == ListedBy(tags', t) \ ListedBy(tags, t)

\* tagFiles on the folder of a path and a tag t: the files added are files of
\* the folder whose name no listed file had; a file of the folder that is not
\* added gave EEXIST, its name being that of a file the tag lists.
FolderTagged(t, path) ==
    /\ ListedBy(tags, t) \subseteq ListedBy(tags', t)
    /\ Added(t) \subseteq FilesInside(path)
    /\ \A i \in Added(t) : ~NameTaken(t, i)
    /\ \A i \in FilesInside(path) \ Added(t) :
           \E id \in ListedBy(tags', t) : getFilenameFromID(files, id) = files[i].filename
    /\ OnlyRowChanged(t)
    /\ reply' = IF FilesInside(path) \subseteq Added(t) THEN TagReply(0) ELSE TagReply(EEXIST)

\* What every step of QH_TAG does: the daemon dies, or answers with one of
\* the three sentences of the verb.
TagStep == ~alive' \/ reply' \in {TagReply(0), TagReply(EEXIST), TagReply(ENOENT)}

Nested(c, p) ==
    /\ c \in DOMAIN tags /\ p \in DOMAIN tags
    /\ Lists(tags[p].child_tags, c)
    /\ Lists(tags[c].parent_tags, p)

\* The rows after the edge is taken out: c is gone from the children of p
\* and p from the parents of c, and nothing else has changed.
Unnested(c, p) ==
    /\ DOMAIN tags' = DOMAIN tags
    /\ \A r \in DOMAIN tags \ {c, p} : tags'[r] = tags[r]
    /\ getChildTagIDs(tags', p) = Erase(getChildTagIDs(tags, p), Find(getChildTagIDs(tags, p), c))
    /\ getParentTagIDs(tags', c) = Erase(getParentTagIDs(tags, c), Find(getParentTagIDs(tags, c), p))
    /\ ~Lists(tags'[p].child_tags, c)
    /\ ~Lists(tags'[c].parent_tags, p)
    /\ tags'[p] = [tags[p] EXCEPT !.child_tags = tags'[p].child_tags,
                                  !.parent_tags = tags'[p].parent_tags]
    /\ tags'[c] = [tags[c] EXCEPT !.child_tags = tags'[c].child_tags,
                                  !.parent_tags = tags'[c].parent_tags]
    /\ c # p => /\ tags'[p].parent_tags = tags[p].parent_tags
                /\ tags'[c].child_tags = tags[c].child_tags

\* A nestTag that succeeds and the unnestTag of the same pair right after it
\* leave the tag rows as they were.
NestThenUnnest(c, p) ==
    (~nestTag(Here, c, p).x /\ nestTag(Here, c, p).r = 0)
    => unnestTag(nestTag(Here, c, p).w, c, p).w.tags = tags

\* The ids the arguments of a nest or unnest request resolve to.
ArgIDs == {getTagID(tags, tag) : tag \in TagArgs} \ {Diverged}

\* C27. unnestTag(child, parent) takes child out of parent.child_tags and
\* parent out of child.parent_tags; when the edge is absent it answers ENOENT
\* and changes nothing; and a successful nestTag followed at once by
\* unnestTag of the same pair restores all tag rows.
C27_UnnestTag ==
    /\ [][\A tag \in TagArgs, parentTag \in TagArgs :
             (/\ getTagID(tags, tag) # Diverged
              /\ getTagID(tags, parentTag) # Diverged
              /\ QH_UNNEST(tag, parentTag))
             => /\ alive'
                /\ IF Nested(getTagID(tags, tag), getTagID(tags, parentTag))
                   THEN /\ reply' = UnnestReply(0)
                        /\ Unnested(getTagID(tags, tag), getTagID(tags, parentTag))
                   ELSE reply' = UnnestReply(ENOENT) /\ tags' = tags]_vars
    /\ [](\A c \in ArgIDs, p \in ArgIDs : NestThenUnnest(c, p))


\* The id of the folder row a default-mode path names, NoID when there is none.
FolderAt(path) == getFolderID(tags, splitPathIntoParts(path))

\* The tag rows that list the file.
TagsOf(fileID) == {t \in TagRows : Lists(tags[t].files_ids, fileID)}

\* Another file that has one of the tags of the file has the name.
NameTakenUnderTags(fileID, name) ==
    \E t \in TagsOf(fileID) : \E id \in ListedBy(tags, t) :
        id # fileID /\ getFilenameFromID(files, id) = name

\* C28. renamePath(old, new), where old is a file, the parent folder of new
\* exists and nothing is at new, returns 0, and afterwards the same file row
\* (same id, same hash, same tags) is found at new and nothing at old, whether
\* the file is renamed in its folder or moved with its leaf name, unless
\* another file with one of the tags of the source has the leaf name of new.
C28_RenameFile ==
    [][\A oldPath \in DefaultPaths, newPath \in DefaultPaths :
          (/\ ~tagView
           /\ FileAt(oldPath) # NoID
           /\ FolderOf(newPath) # NoID
           /\ FileAt(newPath) = NoID /\ FolderAt(newPath) = NoID
           /\ ~NameTakenUnderTags(FileAt(oldPath), popBack(splitPathIntoParts(newPath)))
           /\ FD_RENAME(oldPath, newPath))
          => /\ alive'
             /\ reply' = "TM_ACK"
             /\ FileAt(newPath)' = FileAt(oldPath)
             /\ FileAt(oldPath)' = NoID
             /\ files'[FileAt(oldPath)].hash = files[FileAt(oldPath)].hash
             /\ tags' = tags
             /\ blobs' = blobs]_vars


\* The cases in which renamePath is to refuse: the parent folder of new does
\* not resolve; old does not exist; old is a file and new a folder; old is a
\* folder and a file or a folder is at new.
Rejected(oldPath, newPath) ==
    \/ FolderOf(newPath) = NoID
    \/ FileAt(oldPath) = NoID /\ FolderAt(oldPath) = NoID
    \/ FileAt(oldPath) # NoID /\ FolderAt(newPath) # NoID
    \/ /\ FolderAt(oldPath) # NoID /\ FileAt(oldPath) = NoID
       /\ FileAt(newPath) # NoID \/ FolderAt(newPath) # NoID

\* C29. In each rejected case renamePath returns a value other than 0, which
\* FD_RENAME answers with TM_FAIL, and leaves every file row, every tag row
\* and every blob as it was.
C29_RenameRejected ==
    [][\A oldPath \in DefaultPaths, newPath \in DefaultPaths :
          (/\ ~tagView
           /\ Rejected(oldPath, newPath)
           /\ FD_RENAME(oldPath, newPath))
          => /\ alive'
             /\ reply' = "TM_FAIL"
             /\ tags' = tags
             /\ files' = files
             /\ blobs' = blobs]_vars


\* The tag a tag-view path names by its leaf, and the tag of its parent path.
LeafTag(path) == getTagID(tags, getFilename(path))

ParentTag(path) == getParentTagIDFromPath(tags, path)

\* A rename in tag view that is the move of a tag to a different parent: the
\* leaf of old names a tag nested under the parent of old, no tagged file is
\* at old or at new, the parent of new is another tag, and the leaf of new is
\* the tag itself or no tag.
TagMoved(oldPath, newPath) ==
    /\ tagView
    /\ LeafTag(oldPath) \in DOMAIN tags
    /\ ParentTag(oldPath) \in DOMAIN tags
    /\ ParentTag(newPath) \in DOMAIN tags
    /\ ParentTag(newPath) # ParentTag(oldPath)
    /\ Nested(LeafTag(oldPath), ParentTag(oldPath))
    /\ TaggedAt(oldPath) = NoID /\ TaggedAt(newPath) = NoID
    /\ LeafTag(newPath) \in {LeafTag(oldPath), NoID}

\* nestTag refuses to put c under p: the edge is there, or c is p or above p.
NestRefused(c, p) ==
    \/ Lists(tags[p].child_tags, c)
    \/ Lists(tags[c].parent_tags, p)
    \/ c \in getAncestorTagIDs(tags, p)

\* C30. Tag move: when renameTaggedPath moves a tag to a different parent and
\* answers success, the tag is afterwards a child of the new parent and not of
\* the old; when nestTag refuses the new parent (a cycle, or the edge is
\* there) the call answers failure and the tag is still nested under the old
\* parent.
C30_TagMove ==
    [][\A oldPath \in TagViewPaths, newPath \in TagViewPaths :
          (TagMoved(oldPath, newPath) /\ FD_RENAME(oldPath, newPath))
          => /\ alive'
             /\ reply' = "TM_ACK"
                => /\ Nested(LeafTag(oldPath), ParentTag(newPath))'
                   /\ ~Lists(tags'[ParentTag(oldPath)].child_tags, LeafTag(oldPath))
                   /\ ~Lists(tags'[LeafTag(oldPath)].parent_tags, ParentTag(oldPath))
             /\ NestRefused(LeafTag(oldPath), ParentTag(newPath))
                => /\ reply' = "TM_FAIL"
                   /\ Nested(LeafTag(oldPath), ParentTag(oldPath))']_vars


\* The folder rows together with the root folder 1.
AllFolders == {i \in DOMAIN tags : i = 1 \/ tags[i].parent_folder >= 1}

\* C31. deleteFolder never deletes a folder that still has a subfolder: in
\* every reachable state the parent_folder of every folder row other than the
\* root folder, and of every file row, is the id of an existing folder row.
C31_ParentsExist ==
    /\ \A d \in FolderRows : tags[d].parent_folder \in AllFolders
    /\ \A f \in DOMAIN files : files[f].parent_folder \in AllFolders


\* Following the parent_folder links of table T upwards from row d, having
\* passed the rows in seen: TRUE when the walk ends at a row without a parent
\* row, FALSE when it comes to a row it has passed.
RECURSIVE Climbs(_, _, _)
Climbs(T, d, seen) ==
    IF T[d].parent_folder \notin DOMAIN T THEN TRUE
    ELSE IF T[d].parent_folder \in seen THEN FALSE
    ELSE Climbs(T, T[d].parent_folder, seen \cup {T[d].parent_folder})

NoRevisit(T) == \A d \in {i \in DOMAIN T : T[i].parent_folder >= 1} : Climbs(T, d, {d})

\* C32. Folder tree: following parent_folder links from any folder row never
\* revisits a folder, and renamePath, called with any two paths in any
\* reachable state, leaves it so: it never moves a folder into itself or
\* into one of its descendants.
C32_FolderTree ==
    /\ NoRevisit(tags)
    /\ \A oldPath \in DefaultPaths, newPath \in DefaultPaths :
           ~renamePath(Here, oldPath, newPath).x
           => NoRevisit(renamePath(Here, oldPath, newPath).w.tags)


\* C33. Reserved roots: in every reachable state row 0 (the root of the tag
\* view) and row 1 (the root folder) exist under their names, with
\* parent_folder -1 and an empty parent_tags list; no request deletes,
\* renames or re-parents them.
C33_ReservedRoots ==
    \A r \in {0, 1} :
        /\ r \in DOMAIN tags
        /\ tags[r].tag_name = InitTags[r].tag_name
        /\ tags[r].parent_folder = -1
        /\ tags[r].parent_tags = <<>>


\* C34. Truncate result: after a truncateFile(length, path) that returns 0
\* the row of the path has a hash whose blob exists, and the file reads the
\* content it had before cut or zero-extended to length, for every length,
\* 0 included, whether or not other rows shared the blob.
C34_TruncateResult ==
    [][\A length \in Lengths, file \in DefaultPaths :
          (/\ ~tagView
           /\ FileAt(file) # NoID
           /\ BlobName(files[FileAt(file)].hash) \in DOMAIN blobs
           /\ FD_TRUNCATE(length, file)
           /\ alive' /\ reply' = "TM_ACK")
          => /\ FileAt(file) \in DOMAIN files'
             /\ BlobName(files'[FileAt(file)].hash) \in DOMAIN blobs'
             /\ Reads(files', blobs', FileAt(file))
                    = Truncated(Reads(files, blobs, FileAt(file)), length)]_vars


\* TFSwrite and TFSrelease as steps from a state W: the write of data to the
\* file at a path, and the release of the file (updateFile).
Wrote(W, file, data) ==
    [W EXCEPT !.blobs = pwriteShadow(W.blobs, getFilePath(W, file).hash, data)]

Released(W, file) == updateFile(W, file).w

\* Two paths name different files that are deduplicated: their rows have one
\* hash, the digest of the content of the blob, and no write is pending on it.
Deduplicated(a, b) ==
    /\ ~tagView
    /\ FileAt(a) # NoID /\ FileAt(b) # NoID /\ FileAt(a) # FileAt(b)
    /\ files[FileAt(a)].hash = files[FileAt(b)].hash
    /\ files[FileAt(a)].hash.t = 0
    /\ BlobName(files[FileAt(a)].hash) \in DOMAIN blobs
    /\ ShadowName(files[FileAt(a)].hash, ".WRITE") \notin DOMAIN blobs

\* C35. Interleaved writes to deduplicated files: when two files share a
\* hash and the requests are write A, write B, release A, release B, each
\* file afterwards reads the data written to it.
C35_InterleavedWrites ==
    \A a \in DefaultPaths, b \in DefaultPaths, dataA \in Data, dataB \in Data :
        Deduplicated(a, b)
        => With(Released(Released(Wrote(Wrote(Here, a, dataA), b, dataB), a), b), LAMBDA W :
               /\ BlobName(W.files[FileAt(a)].hash) \in DOMAIN W.blobs
               /\ BlobName(W.files[FileAt(b)].hash) \in DOMAIN W.blobs
               /\ Reads(W.files, W.blobs, FileAt(a)) = dataA
               /\ Reads(W.files, W.blobs, FileAt(b)) = dataB)


\* C36. Concurrent commands of the operator: every frame that queryTFS of a
\* command reads from the outbound queue answers the request that command
\* sent.
C36_RepliesToSender ==
    \A p \in Operators :
        \A i \in 1..Len(cli[p].read) :
            cli[p].read[i].by = "queryTFS" => cli[p].read[i].ticket = cli[p].read[i].for


\* C37. Termination of the ancestor walk: getAncestorTagIDs returns for every
\* tag row of every reachable tag graph.
C37_AncestorWalkEnds ==
    \A t \in DOMAIN tags : Diverged \notin getAncestorTagIDs(tags, t)

\* A nest has been refused by the cyclic check while some tag is above
\* another: the walk from that tag finds the tag itself and a second one.
C37_Witness ==
    /\ reply = NestReply(1)
    /\ \E t \in DOMAIN tags : Cardinality(getAncestorTagIDs(tags, t)) >= 2


\* A default-mode path that names neither a file nor a folder.
NothingAt(path) ==
    With(splitPathIntoParts(path), LAMBDA parts :
    With(getFolderID(tags, popRest(parts)), LAMBDA parentFolderID :
        \/ parentFolderID = NoID
        \/ /\ getFileID(files, popBack(parts), parentFolderID) = NoID
           /\ selectFolderID(tags, popBack(parts), parentFolderID) = NoID))

\* C38. A tagFiles request that fails with no-such-entry because its path
\* names neither a file nor a folder leaves the tables as they were: no tag
\* row is created and the root tag's child_tags gets no entry.
C38_FailedTagChangesNothing ==
    [][\A path \in DefaultPaths, tag \in TagArgs :
          (/\ NothingAt(path)
           /\ QH_TAG(path, tag)
           /\ alive' /\ reply' = TagReply(ENOENT))
          => tags' = tags /\ files' = files]_vars


\* What FD_UNLINK of a tag-view path may change: nothing but the files_ids
\* of the path's parent tag, which lose the id of the file the path names;
\* nothing at all when the request fails or kills the daemon.
UnlinkedOnly(file) ==
    With(getParentTagIDFromPath(tags, file), LAMBDA tagID :
    With(getTaggedFileID(tags, files, tagID, getFilename(file)), LAMBDA fileID :
        IF alive' /\ reply' = "TM_ACK"
        THEN /\ tagID \in DOMAIN tags
             /\ fileID # NoID
             /\ Contains(deserializeStrings(tags[tagID].files_ids), fileID)
             /\ tags' = [tags EXCEPT ![tagID].files_ids =
                            serializeStrings(Erase(deserializeStrings(tags[tagID].files_ids),
                                                   Find(deserializeStrings(tags[tagID].files_ids), fileID)))]
        ELSE tags' = tags))

\* C39. Tag-view mode is read-only for files: a request of the bridge served
\* in tag view leaves every File row and every blob as it was, and FD_UNLINK
\* only takes the file's id out of the files_ids of the path's parent tag.
C39_TagViewReadOnly ==
    [][tagView =>
          /\ files' = files
          /\ blobs' = blobs
          /\ \A file \in TagViewPaths : FD_UNLINK(file) => UnlinkedOnly(file)]_vars

\* A truncate has been refused in tag view while a written file is listed
\* by a tag.
C39_Witness ==
    /\ tagView
    /\ reply = "1"
    /\ \E f \in DOMAIN files :
           /\ \E t \in DOMAIN tags : Contains(deserializeStrings(tags[t].files_ids), f)
           /\ \E n \in DOMAIN blobs : blobs[n] # <<>>

====
